---- MODULE Spec2Model ----
(***************************************************************************)
(* SkyWatcher SynScan mount controller (src/skywatcher/synscan.py) and the *)
(* threads of the GUI that drive it (src/skywatcher/ui.py, main.py).       *)
(*                                                                         *)
(* One SynScanProtocol object, one serial port, one device.  Each thread   *)
(* has a call stack of frames [fn, pc, arg, loc, val]; a step of the model *)
(* is one port operation or one block of straight-line code of the frame   *)
(* on top.  A string is a sequence of one-character strings, so that the   *)
(* framing, the stripping and the hex parsing are computed as the code     *)
(* computes them.                                                          *)
(***************************************************************************)
EXTENDS Integers, Sequences, FiniteSets, TLC

VARIABLES
    serial,                 \* self.serial: "None" | "open" | "closed"
    broken,                 \* the open port has failed: every operation on it raises
    inbuf,                  \* the port's input buffer (bytes received, not yet read)
    pending,                \* bytes the device has emitted that are still on the line
    stack,                  \* per thread: the call stack, top frame last
    ret,                    \* per thread: the value the last returned call gave,
                            \* until the caller has taken it
    sent,                   \* history, per thread: the frames written during its
                            \* current top-level call
    latitude,               \* self.latitude  (NoneV or a number)
    longitude,              \* self.longitude (NoneV or a number)
    hemisphere,             \* self.hemisphere: "NORTH" | "SOUTH"
    STEPS_PER_REVOLUTION,   \* self.STEPS_PER_REVOLUTION
    current_ra,             \* self.current_ra  (an angle)
    current_dec,            \* self.current_dec (an angle)
    lateReplies,            \* the device: may bytes arrive after the host gave up?
    terse,                  \* the device: short list of answers?
    whole,                  \* the device: does each answer arrive in one piece?
    encoder,                \* the device, per axis: the count of the encoder at the
                            \* time the axis is initialized
    running,                \* SkyWatcherUI.running
    held,                   \* SkyWatcherUI.synscan is the object (not None)
    ui_position,            \* SkyWatcherUI.current_ra, current_dec (NoneV or a pair)
    random_goto_running,    \* SkyWatcherUI.random_goto_running
    obs_lat,                \* SkyWatcherUI.obs_lat, with obs_lon (NoneV: not set)
    serial_status,          \* the serial status label shows "connected"
    history,                \* the history variables that are kept, by name
    prev,                   \* history: outcome class and value of the send_command
                            \* that returned last
    outcomes,               \* history, per thread: for each round trip its current
                            \* top-level call has made, did it succeed?
    started                 \* history: has a goto or a manual motion been started
                            \* with no stop_all after it?

portVars == <<serial, broken, inbuf, pending>>
siteVars == <<latitude, longitude, hemisphere>>
posVars == <<current_ra, current_dec>>
objVars == <<siteVars, STEPS_PER_REVOLUTION, posVars>>
callVars == <<stack, ret, sent>>
devVars == <<lateReplies, terse, whole, encoder>>
panelVars == <<random_goto_running, obs_lat, serial_status>>
uiVars == <<running, held, ui_position, panelVars>>
histVars == <<history, prev, outcomes, started>>
envVars == <<devVars, uiVars, histVars>>
vars == <<portVars, objVars, callVars, envVars>>

----------------------------------------------------------------------------
(* Bounds of the model *)

\* the host's input buffer holds at most this many bytes when the device starts
\* an answer; the device stays silent to a frame whose answer would not fit
MaxPending == 8

\* the targets of a random GOTO sequence (the GUI asks for 10)
MaxTargets == 2

\* the rounds of half a second a random GOTO sequence waits for one target
\* before it gives the target up (the code waits 300 s)
MaxWaitRounds == 2

\* a call reads at most this many bytes before its time is up
MaxRead == 8
\* the same, when the device is the terse one
MaxTerseRead == 3

----------------------------------------------------------------------------
(* Values *)

\* the threads that monitoring_loop runs on: no more than two at a time
MonThreads == {"mon", "mon2"}

\* the thread of _random_goto_worker
WorkerThread == "worker"

Threads == {"gui", WorkerThread} \cup MonThreads

CR == "\r"
LF == "\n"
\* one byte >= 0x80, which bytes.decode('ascii') rejects
NonAscii == "0x80"

NoneV == [tag |-> "None"]
Str(s) == [tag |-> "Str", s |-> s]
Bool(b) == [tag |-> "Bool", b |-> b]
Num(n) == [tag |-> "Num", n |-> n]
\* no value yet
Nil == [tag |-> "Nil"]
\* an exception left the call
Raised(e) == [tag |-> "Raised", e |-> e]

IsNone(v) == v.tag = "None"
IsStr(v) == v.tag = "Str"
IsTrue(v) == v.tag = "Bool" /\ v.b
IsFalse(v) == v.tag = "Bool" /\ ~v.b

\* the value a round trip returned tells success: the data string of
\* send_command, True of set_time, set_location and initialize_axis
Succeeded(v) == IsStr(v) \/ IsTrue(v)

AXIS_RA == "1"
AXIS_DEC == "2"

\* STEPS_PER_REVOLUTION, the class attribute
DefaultStepsPerRevolution == 5120000
\* DEFAULT_LAT = 39.9164 and DEFAULT_LON = 116.3830, in whole degrees
DEFAULT_LAT == 40
DEFAULT_LON == 116

\* the latitudes and longitudes (whole degrees) a caller configures
Latitudes == {-30, 0}
Longitudes == {116}

----------------------------------------------------------------------------
(* Strings *)

StartsWith(s, c) == Len(s) > 0 /\ s[1] = c

\* str.rstrip(chars): drop every trailing character that is in chars
RECURSIVE RStrip(_, _)
RStrip(s, chars) ==
    IF s # <<>> /\ s[Len(s)] \in chars
    THEN RStrip(SubSeq(s, 1, Len(s) - 1), chars)
    ELSE s

\* the frame send_command builds: f":{command}{axis}{data}\r"
Frame(command, axis, data) == <<":", command, axis>> \o data \o <<CR>>

\* the opcode and the axis of a frame on the wire
OpOf(frame) == frame[2]
AxisOf(frame) == frame[3]

----------------------------------------------------------------------------
(* Call stacks *)

Idle(t) == stack[t] = <<>>
Top(t) == stack[t][Len(stack[t])]
At(t, fn, pc) == ~Idle(t) /\ Top(t).fn = fn /\ Top(t).pc = pc

NewFrame(fn, pc, arg, loc) ==
    [fn |-> fn, pc |-> pc, arg |-> arg, loc |-> loc, val |-> Nil]

\* the stack of t with its top frame replaced
WithTop(t, f) == [stack EXCEPT ![t] = [@ EXCEPT ![Len(@)] = f]]

\* the top frame moves to pc
Goto(t, pc) == stack' = WithTop(t, [Top(t) EXCEPT !.pc = pc])

\* the top frame finishes with value v ("return v")
Finish(f, v) == [f EXCEPT !.pc = "done", !.val = v]

\* the top frame calls callee and will continue at pc cont
CallFrom(t, cont, callee) ==
    stack' = [stack EXCEPT ![t] =
                 Append([@ EXCEPT ![Len(@)].pc = cont], callee)]

\* a thread with an empty stack makes a top-level call
Enter(t, callee) ==
    /\ Idle(t)
    /\ stack' = [stack EXCEPT ![t] = <<callee>>]
    /\ UNCHANGED <<ret, sent>>

----------------------------------------------------------------------------
(* Exceptions *)

\* set_time, set_location and initialize_axis each write their frame and read
\* the reply themselves, with the same code
RawFns == {"set_time", "set_location", "initialize_axis"}
\* the functions that write a frame and read its answer
RoundTripFns == RawFns \cup {"send_command"}

\* a fault: send_command catches serial.SerialException only
Handler_SerialOnly(fn, pc, e) ==
    CASE fn = "send_command" /\ pc \in {"drain", "write", "first", "rest", "parse"}
                             /\ e = "SerialException" ->
            [caught |-> TRUE, pc |-> "done", val |-> NoneV]
      [] fn \in RawFns /\ pc \in {"drain", "write", "read", "parse"} ->
            [caught |-> TRUE, pc |-> "done", val |-> Bool(FALSE)]
      [] fn = "connect" /\ pc = "loc" ->
            [caught |-> TRUE, pc |-> "loc", val |-> Nil]
      [] fn = "connect" /\ pc = "initRA" ->
            [caught |-> TRUE, pc |-> "initRA", val |-> Nil]
      [] fn = "connect" ->
            [caught |-> TRUE, pc |-> "done", val |-> Bool(FALSE)]
      [] fn = "goto_ra_dec" /\ pc \in {"mode", "modeRead", "send", "result"} ->
            [caught |-> TRUE, pc |-> "done", val |-> Bool(FALSE)]
      [] fn = "slew_to_coordinates" ->
            [caught |-> TRUE, pc |-> "done", val |-> Bool(FALSE)]
      [] OTHER -> [caught |-> FALSE, pc |-> "raise", val |-> Raised(e)]

\* a fault: set_time, set_location and initialize_axis without their except
\* clause
Handler_RawUncaught(fn, pc, e) ==
    IF fn \in RawFns
    THEN [caught |-> FALSE, pc |-> "raise", val |-> Raised(e)]
    ELSE Handler_SerialOnly(fn, pc, e)

\* The try/except clauses: what the frame of fn does with exception e raised
\* at pc (in its own code or by the call it waits for).  caught = FALSE: the
\* exception leaves the function.
Handler(fn, pc, e) ==
    CASE fn = "send_command" /\ pc \in {"drain", "write", "first", "rest", "parse"} ->
            \* lines 181, 229-231
            [caught |-> TRUE, pc |-> "done", val |-> NoneV]
      [] fn \in RawFns /\ pc \in {"drain", "write", "read", "parse"} ->
            \* lines 758, 791-793; 812, 845-847; 893, 926-928
            [caught |-> TRUE, pc |-> "done", val |-> Bool(FALSE)]
      [] fn = "connect" /\ pc = "loc" ->
            \* lines 93, 100-101: the try around set_time; on to the location
            [caught |-> TRUE, pc |-> "loc", val |-> Nil]
      [] fn = "connect" /\ pc = "initRA" ->
            \* lines 103, 116-117: the try around set_location; on to the axes
            [caught |-> TRUE, pc |-> "initRA", val |-> Nil]
      [] fn = "connect" ->
            \* lines 80, 155-157
            [caught |-> TRUE, pc |-> "done", val |-> Bool(FALSE)]
      [] fn = "goto_ra_dec" /\ pc \in {"mode", "modeRead", "send", "result"} ->
            \* lines 624, 646-648
            [caught |-> TRUE, pc |-> "done", val |-> Bool(FALSE)]
      [] fn = "slew_to_coordinates" ->
            \* lines 672, 732-734
            [caught |-> TRUE, pc |-> "done", val |-> Bool(FALSE)]
      [] fn = "monitoring_loop" ->
            \* ui.py lines 744, 775-777: log, sleep, test again
            [caught |-> TRUE, pc |-> "sleep", val |-> Nil]
      [] fn = "start_monitoring" /\ pc = "spawn" ->
            \* ui.py lines 793, 796-797: the try around set_location
            [caught |-> TRUE, pc |-> "spawn", val |-> Nil]
      [] fn = "connect_selected_port" /\ pc = "new" ->
            \* ui.py lines 665-668: the try around disconnect(); go on
            [caught |-> TRUE, pc |-> "new", val |-> Nil]
      [] fn = "disconnect_serial" /\ pc = "status" ->
            \* ui.py lines 695, 699-700: a line in the log
            [caught |-> TRUE, pc |-> "done", val |-> NoneV]
      [] fn = "_random_goto_worker" /\ pc = "sent" ->
            \* ui.py lines 1580, 1586-1588: the try around goto_ra_dec; continue
            [caught |-> TRUE, pc |-> "next", val |-> Nil]
      [] OTHER -> [caught |-> FALSE, pc |-> "raise", val |-> Raised(e)]

\* frame f after exception e was raised at its pc
Throw(f, e) ==
    LET h == Handler(f.fn, f.pc, e)
    IN  [f EXCEPT !.pc = h.pc, !.val = h.val]

\* frame f after its operation op on the port raised e
Failed(f, op, e) == Throw([f EXCEPT !.loc.io = @ \cup {op}, !.loc.fault = TRUE], e)

----------------------------------------------------------------------------
(* The serial port and the device *)

\* what a device may answer to a frame with this opcode: silence, the bare
\* acknowledgement, the rejection, and replies that try the parsers
FullReplies(op) ==
    {<<>>, <<"=", CR>>, <<"!", CR>>}
    \cup (IF op = "I"
          THEN {<<"=", "0", "1", CR>>, <<"=", "1", LF, CR>>, <<"x", "=", "1", CR>>,
                <<"=", NonAscii, CR>>}
          ELSE {})
    \cup (IF op = "a"
          THEN {<<"=", "0", "0", "2", "0", "4", "E", CR>>,
                <<"=", "0", "0", "0", "0", "0", "0", CR>>,
                <<"=", "0", "0", "2", "0", CR>>,
                <<"=", "0", "0", "Z", "Z", "4", "E", CR>>}
          ELSE {})
    \cup (IF op = "j"
          THEN {<<"=", "-", "9", "5", ".", "5", CR>>,
                <<"=", "-", "1", "e", "-", "2", "0", CR>>,
                <<"=", "0", "0", "A", "0", "0", "0", CR>>}
          ELSE {})

\* the short list of the terse device: silence, the acknowledgement, one position
TerseReplies(op) ==
    {<<>>}
    \cup (IF op = "j" THEN {<<"=", "0", CR>>} ELSE {<<"=", CR>>})

DeviceReplies(op) == IF terse THEN TerseReplies(op) ELSE FullReplies(op)

\* The device answers a frame only when it has finished sending its last answer
\* and the answer fits; otherwise it stays silent to the frame.
Fits(r) == r = <<>> \/ (pending = <<>> /\ Len(inbuf) + Len(r) <= MaxPending)

\* serial.write(frame) succeeded: the device gets the frame and answers.  The
\* answer that arrives in one piece is in the input buffer at once; the bytes
\* of another come one by one (Deliver).
PortWrite(t, frame) ==
    /\ sent' = IF "sent" \in history THEN [sent EXCEPT ![t] = Append(@, frame)] ELSE sent
    /\ \E r \in DeviceReplies(OpOf(frame)) :
          /\ Fits(r)
          /\ IF whole
             THEN inbuf' = inbuf \o r /\ pending' = pending
             ELSE pending' = pending \o r /\ inbuf' = inbuf

\* A byte reaches the host: into the input buffer of an open port, lost
\* otherwise.  Nothing looks at the buffer while no call runs, so the bytes of
\* an idle period arrive as the next call starts.
Deliver ==
    /\ pending # <<>>
    /\ \E t \in Threads : ~Idle(t)
    /\ ~broken
    /\ pending' = Tail(pending)
    /\ inbuf' = IF serial = "open" THEN Append(inbuf, Head(pending)) ELSE inbuf
    /\ UNCHANGED <<objVars, callVars, envVars, serial, broken>>

\* the frame on top of the stack of t is about to operate on the port
AtPort(t) == ~Idle(t) /\ Top(t).pc \in {"drain", "write", "first", "rest", "read"}

\* The open port fails (the adapter is unplugged): from now on every operation
\* on it raises, nothing more arrives and what had arrived cannot be read.
PortBreak ==
    /\ serial = "open"
    /\ ~broken
    /\ \E t \in Threads : AtPort(t)
    /\ broken' = TRUE
    /\ pending' = <<>>
    /\ inbuf' = <<>>
    /\ UNCHANGED <<objVars, callVars, envVars, serial>>

\* where the encoders of the two axes stand when the axes are initialized: at
\* the zero of the counters, or away from it (0x00A000 and 0xE42000, the
\* counts of the hex replies to 'j')
AtZero == [a \in {AXIS_RA, AXIS_DEC} |-> 0]
Encoders == {AtZero, [a \in {AXIS_RA, AXIS_DEC} |-> IF a = AXIS_RA THEN 40960 ELSE 14950400]}

\* the bytes a call may read in its time
ReadLimit == IF terse THEN MaxTerseRead ELSE MaxRead

\* an operation on the port goes through; otherwise it raises
PortUp == serial = "open" /\ ~broken

\* What is on the line once the host has stopped listening for the answer to
\* a frame: a device without late replies sends nothing of it any more.
AfterRoundTrip == IF lateReplies THEN pending ELSE <<>>


----------------------------------------------------------------------------
(* SynScanProtocol.send_command *)

\* a fault: the start character is not cut off (response.rstrip('\r\n'))
ParseResponse_KeepStart(response) ==
    IF StartsWith(response, "=")
    THEN Str(RStrip(response, {CR, LF}))
    ELSE NoneV

\* a fault: the rejection is handed to the caller as data
ParseResponse_RejectionAsData(response) ==
    IF StartsWith(response, "=")
    THEN Str(RStrip(Tail(response), {CR, LF}))
    ELSE IF StartsWith(response, "!")
    THEN Str(RStrip(response, {CR, LF}))
    ELSE NoneV

\* a fault: the characters received before the start character are skipped
RECURSIVE ParseResponse_SkipToStart(_)
ParseResponse_SkipToStart(response) ==
    IF response = <<>> THEN NoneV
    ELSE IF response[1] = "=" THEN Str(RStrip(Tail(response), {CR, LF}))
    ELSE IF response[1] = "!" THEN NoneV
    ELSE ParseResponse_SkipToStart(Tail(response))

\* lines 217-227: the value returned for the characters collected
ParseResponse(response) ==
    IF StartsWith(response, "=")
    THEN Str(RStrip(Tail(response), {CR, LF}))
    ELSE NoneV

SendCommandFrame(axis, command, data) ==
    NewFrame("send_command", "check",
             [axis |-> axis, command |-> command, data |-> data],
             [response |-> <<>>, rx |-> <<>>, io |-> {}, fault |-> FALSE,
              entry |-> serial, stale |-> <<>>])

\* a fault: the test of is_open left out (if not self.serial)
LinkOpen_NoIsOpenTest == serial # "None"

\* lines 177-179
LinkOpen == serial = "open"

\* a fault: the frame is written without the input buffer being emptied
SendCheck_NoDrain(t) ==
    /\ At(t, "send_command", "check")
    /\ IF LinkOpen
       THEN stack' = WithTop(t, [Top(t) EXCEPT !.pc = "write", !.loc.entry = serial])
       ELSE stack' = WithTop(t, Finish([Top(t) EXCEPT !.loc.entry = serial], NoneV))
    /\ UNCHANGED <<portVars, objVars, envVars, ret, sent>>

\* lines 177-179
SendCheck(t) ==
    /\ At(t, "send_command", "check")
    /\ IF LinkOpen
       THEN stack' = WithTop(t, [Top(t) EXCEPT !.pc = "drain", !.loc.entry = serial])
       ELSE stack' = WithTop(t, Finish([Top(t) EXCEPT !.loc.entry = serial], NoneV))
    /\ UNCHANGED <<portVars, objVars, envVars, ret, sent>>

\* line 187: self.serial.reset_input_buffer()
SendDrain(t) ==
    /\ At(t, "send_command", "drain")
    /\ \/ /\ PortUp
          /\ inbuf' = <<>>
          /\ stack' = WithTop(t, [Top(t) EXCEPT !.pc = "write",
                                                !.loc.io = @ \cup {"drain"}])
       \/ /\ ~PortUp
          /\ inbuf' = inbuf
          /\ stack' = WithTop(t, Failed(Top(t), "drain", "SerialException"))
    /\ UNCHANGED <<objVars, envVars, serial, broken, pending, ret, sent>>

\* line 190: self.serial.write(cmd.encode('ascii')).  stale: the bytes of
\* earlier answers that are in the buffer or still on the line at the write
\* (history, kept under the name "stale")
SendWrite(t) ==
    /\ At(t, "send_command", "write")
    /\ \/ /\ PortUp
          /\ PortWrite(t, Frame(Top(t).arg.command, Top(t).arg.axis, Top(t).arg.data))
          /\ stack' = WithTop(t, [Top(t) EXCEPT !.pc = "first",
                                                !.loc.io = @ \cup {"write"},
                                                !.loc.stale = IF "stale" \in history
                                                              THEN inbuf \o pending
                                                              ELSE <<>>])
       \/ /\ ~PortUp
          /\ UNCHANGED <<pending, sent, inbuf>>
          /\ stack' = WithTop(t, Failed(Top(t), "write", "SerialException"))
    /\ UNCHANGED <<objVars, envVars, serial, broken, ret>>

\* the frame after read(1) gave byte b and .decode('ascii') was applied
\* (lines 199-201 and 205-208); next is the pc after an accepted character
ReadByte(f, b, next) ==
    LET g == [f EXCEPT !.loc.rx = Append(@, b), !.loc.io = @ \cup {"read"}]
    IN  IF b = NonAscii
        THEN Throw(g, "UnicodeDecodeError")
        ELSE [g EXCEPT !.loc.response = Append(@, b), !.pc = next]

\* lines 215-227: the loops are left (pc "parse"), the function returns
SendParse(f) ==
    IF f.pc = "parse" THEN Finish(f, ParseResponse(f.loc.response)) ELSE f

\* lines 197-201, 212-213: waiting for the start character
SendReadFirst(t) ==
    /\ At(t, "send_command", "first")
    /\ \/ /\ PortUp
          /\ inbuf # <<>>
          /\ Len(Top(t).loc.rx) < ReadLimit
          /\ inbuf' = Tail(inbuf)
          /\ stack' = WithTop(t, ReadByte(Top(t), Head(inbuf),
                                 IF Head(inbuf) \in {"=", "!"} THEN "rest" ELSE "first"))
       \/ /\ ~PortUp
          /\ inbuf' = inbuf
          /\ stack' = WithTop(t, Failed(Top(t), "read", "SerialException"))
    /\ UNCHANGED <<objVars, envVars, serial, broken, pending, ret, sent>>

\* lines 203-211: after the start character, until CR
SendReadRest(t) ==
    /\ At(t, "send_command", "rest")
    /\ \/ /\ PortUp
          /\ inbuf # <<>>
          /\ Len(Top(t).loc.rx) < ReadLimit
          /\ inbuf' = Tail(inbuf)
          /\ stack' = WithTop(t, SendParse(ReadByte(Top(t), Head(inbuf),
                                 IF Head(inbuf) = CR THEN "parse" ELSE "rest")))
       \/ /\ ~PortUp
          /\ inbuf' = inbuf
          /\ stack' = WithTop(t, Failed(Top(t), "read", "SerialException"))
    /\ UNCHANGED <<objVars, envVars, serial, broken, pending, ret, sent>>

\* a fault: the loop that reads up to CR does not look at the time
SendTimeout_FirstLoopOnly(t) ==
    /\ At(t, "send_command", "first")
    /\ inbuf = <<>> \/ Len(Top(t).loc.rx) >= ReadLimit
    /\ stack' = WithTop(t, SendParse([Top(t) EXCEPT !.pc = "parse"]))
    /\ UNCHANGED <<portVars, objVars, envVars, ret, sent>>

\* lines 197 and 203: time.time() - start_time < self.timeout is false.  The
\* time is up while the host waits for a byte (a byte in the buffer is read
\* within the 10 ms of the loop), or when it has read all it can in its time.
SendTimeout(t) ==
    /\ ~Idle(t)
    /\ Top(t).fn = "send_command"
    /\ Top(t).pc \in {"first", "rest"}
    /\ inbuf = <<>> \/ Len(Top(t).loc.rx) >= ReadLimit
    /\ stack' = WithTop(t, SendParse([Top(t) EXCEPT !.pc = "parse"]))
    /\ UNCHANGED <<portVars, objVars, envVars, ret, sent>>

\* The outcome classes of a send, read off what the call met: the state of
\* the link at its test, the bytes it took from the port (rx) and whether an
\* operation on the port raised.
OutcomeClass(f) ==
    LET rx == f.loc.rx
        n == Len(rx)
    IN  CASE f.loc.entry # "open" -> "NotConnected"
          [] f.loc.fault -> "IOError"
          [] rx = <<>> -> "Timeout"
          [] rx = <<"!", CR>> -> "DeviceError"
          [] /\ rx[1] = "=" /\ rx[n] = CR
             /\ \A i \in 1..n : rx[i] # NonAscii -> "Data"
          [] /\ rx[1] \notin {"=", "!", NonAscii} /\ rx[n] = CR
             /\ \A i \in 1..n : rx[i] # NonAscii -> "MalformedFrame"
          [] OTHER -> "Unclassified"

NoPrev == [class |-> "None", val |-> Nil]

----------------------------------------------------------------------------
(* SynScanProtocol.set_time, set_location, initialize_axis: the round trip   *)
(* each of them codes by itself (lines 758-793, 812-847, 893-928)            *)

\* f"{x:+...}": the sign, then the magnitude
FmtSigned(x) == <<IF x >= 0 THEN "+" ELSE "-", ToString(IF x >= 0 THEN x ELSE -x)>>

\* line 760; the clock's digits are one token
TimeCmd == <<":", "T", "1", "YYYYMMDDHHMMSS+ZZ", CR>>
\* line 895
LocationCmd(lat, lon) ==
    <<":", "Z", "1">> \o FmtSigned(lat) \o <<",">> \o FmtSigned(lon)
        \o <<",", "+000", CR>>
\* line 814
InitCmd(axis) == <<":", "F", axis, CR>>

RawLoc(cmd) ==
    [cmd |-> cmd, response |-> <<>>, rx |-> <<>>, io |-> {}, fault |-> FALSE,
     entry |-> serial]

SetTimeFrame == NewFrame("set_time", "drain", [none |-> TRUE], RawLoc(TimeCmd))
SetLocationFrame(lat, lon) ==
    NewFrame("set_location", "cache", [latitude |-> lat, longitude |-> lon],
             RawLoc(LocationCmd(lat, lon)))
InitializeAxisFrame(axis) ==
    NewFrame("initialize_axis", "drain", [axis |-> axis], RawLoc(InitCmd(axis)))

AtRaw(t, pc) == ~Idle(t) /\ Top(t).fn \in RawFns /\ Top(t).pc = pc

\* lines 888-890: the local cache of the observing site
HemisphereOf(lat) == IF lat >= 0 THEN "NORTH" ELSE "SOUTH"

SetLocationCache(t) ==
    /\ At(t, "set_location", "cache")
    /\ latitude' = Num(Top(t).arg.latitude)
    /\ longitude' = Num(Top(t).arg.longitude)
    /\ hemisphere' = HemisphereOf(Top(t).arg.latitude)
    /\ Goto(t, "drain")
    /\ UNCHANGED <<portVars, envVars, ret, sent, STEPS_PER_REVOLUTION, posVars>>

\* lines 764, 818, 899: self.serial.reset_input_buffer(); self.serial is not
\* tested first, so None raises AttributeError and a closed port raises
RawDrain(t) ==
    /\ AtRaw(t, "drain")
    /\ \/ /\ PortUp
          /\ inbuf' = <<>>
          /\ stack' = WithTop(t, [Top(t) EXCEPT !.pc = "write",
                                                !.loc.io = @ \cup {"drain"}])
       \/ /\ ~PortUp
          /\ inbuf' = inbuf
          /\ stack' = WithTop(t, Failed(Top(t), "drain",
                         IF serial = "None" THEN "AttributeError" ELSE "SerialException"))
    /\ UNCHANGED <<objVars, envVars, serial, broken, pending, ret, sent>>

\* lines 767, 821, 902
RawWrite(t) ==
    /\ AtRaw(t, "write")
    /\ \/ /\ PortUp
          /\ PortWrite(t, Top(t).loc.cmd)
          /\ stack' = WithTop(t, [Top(t) EXCEPT !.pc = "read",
                                                !.loc.io = @ \cup {"write"}])
       \/ /\ ~PortUp
          /\ UNCHANGED <<pending, sent, inbuf>>
          /\ stack' = WithTop(t, Failed(Top(t), "write", "SerialException"))
    /\ UNCHANGED <<objVars, envVars, serial, broken, ret>>

\* lines 784-789, 838-843, 919-924: the loop is left (pc "parse")
RawParse(f) ==
    IF f.pc = "parse" THEN Finish(f, Bool(StartsWith(f.loc.response, "="))) ELSE f

\* lines 773-780, 827-834, 908-915: every character is kept, until CR
RawRead(t) ==
    /\ AtRaw(t, "read")
    /\ \/ /\ PortUp
          /\ inbuf # <<>>
          /\ Len(Top(t).loc.rx) < ReadLimit
          /\ inbuf' = Tail(inbuf)
          /\ stack' = WithTop(t, RawParse(ReadByte(Top(t), Head(inbuf),
                                 IF Head(inbuf) = CR THEN "parse" ELSE "read")))
       \/ /\ ~PortUp
          /\ inbuf' = inbuf
          /\ stack' = WithTop(t, Failed(Top(t), "read", "SerialException"))
    /\ UNCHANGED <<objVars, envVars, serial, broken, pending, ret, sent>>

\* lines 773, 827, 908: the time is up
RawTimeout(t) ==
    /\ AtRaw(t, "read")
    /\ inbuf = <<>> \/ Len(Top(t).loc.rx) >= ReadLimit
    /\ stack' = WithTop(t, RawParse([Top(t) EXCEPT !.pc = "parse"]))
    /\ UNCHANGED <<portVars, objVars, envVars, ret, sent>>

----------------------------------------------------------------------------
(* SynScanProtocol.parse_little_endian_hex *)

HexDigits == <<"0", "1", "2", "3", "4", "5", "6", "7", "8", "9",
               "A", "B", "C", "D", "E", "F">>
LowerHexDigits == <<"a", "b", "c", "d", "e", "f">>
Whitespace == {" ", "\t", LF, CR}

IsHexDigit(c) ==
    \/ \E i \in 1..16 : HexDigits[i] = c
    \/ \E i \in 1..6 : LowerHexDigits[i] = c

HexDigitValue(c) ==
    IF \E i \in 1..16 : HexDigits[i] = c
    THEN (CHOOSE i \in 1..16 : HexDigits[i] = c) - 1
    ELSE (CHOOSE i \in 1..6 : LowerHexDigits[i] = c) + 9

\* int(x, 16) of a string of two characters: two hex digits; or one hex digit
\* with a sign before it or white space beside it.  Anything else is a ValueError.
PyInt16(x) ==
    CASE IsHexDigit(x[1]) /\ IsHexDigit(x[2]) ->
            [ok |-> TRUE, v |-> 16 * HexDigitValue(x[1]) + HexDigitValue(x[2])]
      [] x[1] \in Whitespace \cup {"+"} /\ IsHexDigit(x[2]) ->
            [ok |-> TRUE, v |-> HexDigitValue(x[2])]
      [] x[1] = "-" /\ IsHexDigit(x[2]) ->
            [ok |-> TRUE, v |-> 0 - HexDigitValue(x[2])]
      [] IsHexDigit(x[1]) /\ x[2] \in Whitespace ->
            [ok |-> TRUE, v |-> HexDigitValue(x[1])]
      [] OTHER -> [ok |-> FALSE, v |-> 0]

RECURSIVE OrNat(_, _)
OrNat(a, b) ==
    IF a = 0 THEN b
    ELSE IF b = 0 THEN a
    ELSE (IF a % 2 = 1 \/ b % 2 = 1 THEN 1 ELSE 0) + 2 * OrNat(a \div 2, b \div 2)

\* a AND NOT c, on naturals
RECURSIVE AndNotNat(_, _)
AndNotNat(a, c) ==
    IF a = 0 THEN 0
    ELSE (IF a % 2 = 1 /\ c % 2 = 0 THEN 1 ELSE 0) + 2 * AndNotNat(a \div 2, c \div 2)

RECURSIVE AndNat(_, _)
AndNat(a, b) ==
    IF a = 0 \/ b = 0 THEN 0
    ELSE (IF a % 2 = 1 /\ b % 2 = 1 THEN 1 ELSE 0) + 2 * AndNat(a \div 2, b \div 2)

\* Python's x | y on integers of either sign: x | y = ~(~x & ~y), ~x = -x - 1
PyOr(x, y) ==
    CASE x >= 0 /\ y >= 0 -> OrNat(x, y)
      [] x < 0 /\ y < 0 -> -1 - AndNat(-x - 1, -y - 1)
      [] x < 0 /\ y >= 0 -> -1 - AndNotNat(-x - 1, y)
      [] OTHER -> -1 - AndNotNat(-y - 1, x)

\* a fault: the string read as one big-endian number, int(hex_str, 16)
parse_little_endian_hex_BigEndian(hex_str) ==
    IF Len(hex_str) # 6
    THEN [ok |-> FALSE, v |-> 0]
    ELSE LET high == PyInt16(SubSeq(hex_str, 1, 2))
             mid == PyInt16(SubSeq(hex_str, 3, 4))
             low == PyInt16(SubSeq(hex_str, 5, 6))
         IN  IF low.ok /\ mid.ok /\ high.ok
             THEN [ok |-> TRUE, v |-> high.v * 65536 + mid.v * 256 + low.v]
             ELSE [ok |-> FALSE, v |-> 0]

\* lines 246-255; ok = FALSE is the ValueError
parse_little_endian_hex(hex_str) ==
    IF Len(hex_str) # 6
    THEN [ok |-> FALSE, v |-> 0]
    ELSE LET low == PyInt16(SubSeq(hex_str, 1, 2))
             mid == PyInt16(SubSeq(hex_str, 3, 4))
             high == PyInt16(SubSeq(hex_str, 5, 6))
         IN  IF low.ok /\ mid.ok /\ high.ok
             THEN [ok |-> TRUE,
                   v |-> PyOr(PyOr(high.v * 65536, mid.v * 256), low.v)]
             ELSE [ok |-> FALSE, v |-> 0]

----------------------------------------------------------------------------
(* SynScanProtocol.connect and disconnect *)

\* the truth value of an Optional[str]: None and "" are false
Truthy(v) == IsStr(v) /\ v.s # <<>>

\* a fault: the value the device reports is taken as it is
StepsAfterQuery_TrustDevice(cur, steps_response) ==
    IF Truthy(steps_response)
    THEN LET p == parse_little_endian_hex(steps_response.s)
         IN  IF p.ok THEN p.v ELSE cur
    ELSE cur

\* lines 133-152: steps-per-revolution after the reply to the 'a' query
StepsAfterQuery(cur, steps_response) ==
    IF Truthy(steps_response)
    THEN LET p == parse_little_endian_hex(steps_response.s)
         IN  IF ~p.ok THEN cur
             ELSE IF p.v = 16777216 THEN cur
             ELSE IF p.v = 5120000 THEN p.v
             ELSE cur
    ELSE cur

ConnectFrame == NewFrame("connect", "open", [none |-> TRUE], [opened |-> FALSE])

\* lines 81-90: serial.Serial(...) opens the port or raises
ConnectOpen(t) ==
    /\ At(t, "connect", "open")
    /\ \/ /\ serial' = "open"
          /\ broken' = FALSE
          /\ inbuf' = <<>>
          /\ stack' = WithTop(t, [Top(t) EXCEPT !.pc = "time", !.loc.opened = TRUE])
       \/ /\ UNCHANGED <<serial, broken, inbuf>>
          /\ stack' = WithTop(t, Throw(Top(t), "SerialException"))
    /\ UNCHANGED <<objVars, envVars, pending, ret, sent>>

\* lines 93-101
ConnectTime(t) ==
    /\ At(t, "connect", "time")
    /\ CallFrom(t, "loc", SetTimeFrame)
    /\ UNCHANGED <<portVars, objVars, envVars, ret, sent>>

\* lines 103-117
ConnectLocation(t) ==
    /\ At(t, "connect", "loc")
    /\ IF latitude # NoneV /\ longitude # NoneV
       THEN CallFrom(t, "initRA", SetLocationFrame(latitude.n, longitude.n))
       ELSE CallFrom(t, "initRA", SetLocationFrame(DEFAULT_LAT, DEFAULT_LON))
    /\ UNCHANGED <<portVars, objVars, envVars, ret, sent>>

\* a fault: the steps are queried before the axes are initialized
ConnectInitRA_QueryFirst(t) ==
    /\ At(t, "connect", "initRA")
    /\ CallFrom(t, "initDEC", SendCommandFrame(AXIS_RA, "a", <<>>))
    /\ UNCHANGED <<portVars, objVars, envVars, ret, sent>>

\* line 122
ConnectInitRA(t) ==
    /\ At(t, "connect", "initRA")
    /\ CallFrom(t, "initDEC", SendCommandFrame(AXIS_RA, "F", <<>>))
    /\ UNCHANGED <<portVars, objVars, envVars, ret, sent>>

\* line 123 (ra_init and dec_init are only logged, lines 125-128)
ConnectInitDEC(t) ==
    /\ At(t, "connect", "initDEC")
    /\ CallFrom(t, "steps", SendCommandFrame(AXIS_DEC, "F", <<>>))
    /\ UNCHANGED <<portVars, objVars, envVars, ret, sent>>

\* lines 125-132
ConnectSteps(t) ==
    /\ At(t, "connect", "steps")
    /\ CallFrom(t, "reconcile", SendCommandFrame(AXIS_RA, "a", <<>>))
    /\ UNCHANGED <<portVars, objVars, envVars, ret, sent>>

\* a fault: connect gives up when the steps query had no answer
ConnectReconcile_AbortOnNoReply(t) ==
    /\ At(t, "connect", "reconcile")
    /\ STEPS_PER_REVOLUTION' = StepsAfterQuery(STEPS_PER_REVOLUTION, ret[t])
    /\ stack' = WithTop(t, Finish(Top(t), Bool(Truthy(ret[t]))))
    /\ UNCHANGED <<portVars, envVars, ret, sent, siteVars, posVars>>

\* lines 133-154
ConnectReconcile(t) ==
    /\ At(t, "connect", "reconcile")
    /\ STEPS_PER_REVOLUTION' = StepsAfterQuery(STEPS_PER_REVOLUTION, ret[t])
    /\ stack' = WithTop(t, Finish(Top(t), Bool(TRUE)))
    /\ UNCHANGED <<portVars, envVars, ret, sent, siteVars, posVars>>

DisconnectFrame == NewFrame("disconnect", "close", [none |-> TRUE], [entry |-> serial])

\* lines 161-163
DisconnectClose(t) ==
    /\ At(t, "disconnect", "close")
    /\ IF serial = "open"
       THEN serial' = "closed" /\ broken' = FALSE /\ inbuf' = <<>>
       ELSE UNCHANGED <<serial, broken, inbuf>>
    /\ stack' = WithTop(t, Finish(Top(t), NoneV))
    /\ UNCHANGED <<objVars, envVars, pending, ret, sent>>

----------------------------------------------------------------------------
(* Angles.  A Python float that holds degrees is an integer number of units *)
(* of 1/Degree degree; hours are kept as the angle they span (1 h = 15      *)
(* degrees).  The unit makes three decimals of a degree and one encoder     *)
(* step of the default gear (360 * Degree / 5120000 = 9 units) exact.       *)

Degree == 128 * 1000
Turn == 360 * Degree
Hours(h) == h * 15 * Degree

\* the sidereal time compute_lst_hours (lines 285-300) makes of the clock
LSTs == {Hours(6)}

\* zero_ra_encoder and zero_dec_encoder are set by __init__ and never again
zero_ra_encoder == 0
zero_dec_encoder == 0

IsDigit(c) == c \in {"0", "1", "2", "3", "4", "5", "6", "7", "8", "9"}

RECURSIVE LStrip(_, _)
LStrip(s, chars) ==
    IF s # <<>> /\ s[1] \in chars THEN LStrip(Tail(s), chars) ELSE s

\* str.strip()
Strip(s) == RStrip(LStrip(s, Whitespace), Whitespace)

\* the index after the run of decimal digits of s that starts at i
RECURSIVE DigitsEnd(_, _)
DigitsEnd(s, i) ==
    IF i <= Len(s) /\ IsDigit(s[i]) THEN DigitsEnd(s, i + 1) ELSE i

RECURSIVE DigitsValue(_)
DigitsValue(s) ==
    IF s = <<>> THEN 0
    ELSE 10 * DigitsValue(SubSeq(s, 1, Len(s) - 1)) + HexDigitValue(s[Len(s)])

RECURSIVE Pow10(_)
Pow10(n) == IF n = 0 THEN 1 ELSE 10 * Pow10(n - 1)

\* float(s): [sign] digits [. digits] [e|E [sign] digits], white space around
\* it; ok = FALSE is the ValueError.  The value is sign * (whole + frac / Degree)
\* degrees, the fraction cut after three decimals.  under: the value is not
\* zero and its magnitude is below 1e-14, less than half the spacing of the
\* floats next to 360.0.  ("inf", "nan" and digit groups with "_" are not among
\* the replies of the modelled device.)
PyFloat(str) ==
    LET s == Strip(str)
        n == Len(s)
        signed == n > 0 /\ s[1] \in {"+", "-"}
        i0 == IF signed THEN 2 ELSE 1
        i1 == DigitsEnd(s, i0)
        dot == i1 <= n /\ s[i1] = "."
        f0 == IF dot THEN i1 + 1 ELSE i1
        f1 == DigitsEnd(s, f0)
        exp == f1 <= n /\ s[f1] \in {"e", "E"}
        esigned == exp /\ f1 + 1 <= n /\ s[f1 + 1] \in {"+", "-"}
        e0 == IF esigned THEN f1 + 2 ELSE f1 + 1
        e1 == IF exp THEN DigitsEnd(s, e0) ELSE f1
        ok == /\ (i1 - i0) + (f1 - f0) > 0
              /\ exp => e1 > e0
              /\ e1 = n + 1
        mant == DigitsValue(SubSeq(s, i0, i1 - 1) \o SubSeq(s, f0, f1 - 1))
        e == IF ~exp THEN 0
             ELSE IF esigned /\ s[f1 + 1] = "-" THEN 0 - DigitsValue(SubSeq(s, e0, e1 - 1))
             ELSE DigitsValue(SubSeq(s, e0, e1 - 1))
        shift == e - (f1 - f0)
        d == Pow10(0 - shift)
        under == mant # 0 /\ ((i1 - i0) + (f1 - f0)) + shift <= 0 - 14
    IN  IF ~ok THEN [ok |-> FALSE, neg |-> FALSE, whole |-> 0, frac |-> 0,
                     under |-> FALSE]
        ELSE IF under
        THEN [ok |-> TRUE, neg |-> signed /\ s[1] = "-", whole |-> 0, frac |-> 0,
              under |-> TRUE]
        ELSE IF shift >= 0
        THEN [ok |-> TRUE, neg |-> signed /\ s[1] = "-",
              whole |-> mant * Pow10(shift), frac |-> 0, under |-> FALSE]
        ELSE [ok |-> TRUE, neg |-> signed /\ s[1] = "-",
              whole |-> mant \div d, under |-> FALSE,
              frac |-> IF 0 - shift <= 3
                       THEN (mant % d) * (Degree \div d)
                       ELSE ((mant % d) \div (d \div 1000)) * (Degree \div 1000)]

\* range360 (lines 260-262) of a parsed float: d % 360.0.  The remainder of a
\* negative d is d + 360.0, which rounds to 360.0 itself when d is small enough.
range360(x) ==
    LET u == (x.whole % 360) * Degree + x.frac
    IN  IF x.under THEN (IF x.neg THEN Turn ELSE 0)
        ELSE IF x.neg THEN (0 - u) % Turn ELSE u

\* max(-90.0, min(90.0, deg)) of a parsed float (lines 400, 456-459)
ClampDec(x) ==
    LET u == IF x.whole >= 90 THEN 90 * Degree ELSE x.whole * Degree + x.frac
    IN  IF x.neg THEN 0 - u ELSE u

\* int(q): the quotient a / b cut towards zero (b > 0)
IntDiv(a, b) == IF a >= 0 THEN a \div b ELSE 0 - ((0 - a) \div b)

\* the units of one encoder step: (1 / STEPS_PER_REVOLUTION) * 360.0
UnitsPerStep == Turn \div STEPS_PER_REVOLUTION

\* lines 463-502: the value get_axis_degree makes of the reply to 'j'
AxisDegree(axis, resp) ==
    IF IsNone(resp) THEN NoneV
    ELSE LET x == PyFloat(resp.s)
         IN  IF ~x.ok THEN NoneV
             ELSE IF axis = AXIS_RA THEN Num(range360(x))
             ELSE Num(ClampDec(x))

\* lines 386-413: the value get_position makes of the reply to 'j'
PositionSteps(axis, response) ==
    IF ~Truthy(response) THEN NoneV
    ELSE LET s == Strip(response.s)
             x == PyFloat(s)
             p == parse_little_endian_hex(s)
         IN  IF x.ok
             THEN IF axis = AXIS_RA
                  THEN Num(IntDiv(range360(x), UnitsPerStep) % STEPS_PER_REVOLUTION)
                  ELSE Num(IntDiv(ClampDec(x), UnitsPerStep))
             ELSE IF p.ok THEN Num(p.v)
             ELSE NoneV

\* lines 425-426: (steps / STEPS_PER_REVOLUTION) * 360.0, then % 360.0
steps_to_degrees(steps) == (steps * UnitsPerStep) % Turn

\* a fault: the steps are not brought into one revolution
degrees_to_steps_NoWrap(degrees, below) ==
    IntDiv(degrees, UnitsPerStep)
        - (IF below /\ degrees > 0 /\ degrees % UnitsPerStep = 0 THEN 1 ELSE 0)

\* lines 438-439: int((degrees / 360.0) * STEPS_PER_REVOLUTION), then
\* % STEPS_PER_REVOLUTION.  below: the float that holds the angle is the
\* nearest one below the exact value, so that an angle of a whole number of
\* steps gives a quotient just under that number, and int() cuts it off.
degrees_to_steps(degrees, below) ==
    (IntDiv(degrees, UnitsPerStep)
        - (IF below /\ degrees > 0 /\ degrees % UnitsPerStep = 0 THEN 1 ELSE 0))
    % STEPS_PER_REVOLUTION

\* lines 302-318; the hour angle as an angle
encoder_to_hours(step, initstep) ==
    LET base_hours == IF step > initstep
                      THEN Turn - (step - initstep) * UnitsPerStep
                      ELSE (initstep - step) * UnitsPerStep
    IN  IF hemisphere = "NORTH"
        THEN (base_hours + Hours(6)) % Turn
        ELSE ((Turn - base_hours) + Hours(6)) % Turn

\* a fault: in the south the angle is mirrored after it is reduced
EncoderToDegrees_MirrorLast(hemi, step, initstep) ==
    LET base_deg == IF step > initstep
                    THEN (step - initstep) * UnitsPerStep
                    ELSE Turn - (initstep - step) * UnitsPerStep
    IN  IF hemi = "NORTH"
        THEN base_deg % Turn
        ELSE Turn - (base_deg % Turn)

\* lines 320-336, for an object whose self.hemisphere is hemi
EncoderToDegrees(hemi, step, initstep) ==
    LET base_deg == IF step > initstep
                    THEN (step - initstep) * UnitsPerStep
                    ELSE Turn - (initstep - step) * UnitsPerStep
    IN  IF hemi = "NORTH"
        THEN base_deg % Turn
        ELSE (Turn - base_deg) % Turn

\* lines 320-336
encoder_to_degrees(step, initstep) == EncoderToDegrees(hemisphere, step, initstep)

\* a fault: the angle is only wrapped into (-180, 180]
range_dec_SignedWrap(d0) ==
    LET d == d0 % Turn
    IN  IF d <= 180 * Degree THEN d ELSE d - Turn

\* lines 264-276
range_dec(d0) ==
    LET d == d0 % Turn
    IN  IF d <= 90 * Degree THEN d
        ELSE IF d <= 180 * Degree THEN 180 * Degree - d
        ELSE IF d <= 270 * Degree THEN 180 * Degree - d
        ELSE d - Turn

\* a fault: the northern flip begins at 90 degrees, not after it
encoders_to_radec_FlipAt90(ra_step, dec_step, lst_hours) ==
    LET ha_hours == encoder_to_hours(ra_step, zero_ra_encoder)
        dec_raw_deg == encoder_to_degrees(dec_step, zero_dec_encoder)
        adjust == IF hemisphere = "NORTH"
                  THEN IF dec_raw_deg >= 90 * Degree /\ dec_raw_deg <= 270 * Degree
                       THEN 0 - Hours(12) ELSE 0
                  ELSE IF dec_raw_deg <= 90 * Degree \/ dec_raw_deg > 270 * Degree
                       THEN Hours(12) ELSE 0
        ra_hours == (lst_hours - ha_hours) + adjust
    IN  [ra |-> ra_hours % Turn, dec |-> range_dec(dec_raw_deg)]

\* lines 338-371, with the sidereal time lst_hours the clock gives
encoders_to_radec(ra_step, dec_step, lst_hours) ==
    LET ha_hours == encoder_to_hours(ra_step, zero_ra_encoder)
        dec_raw_deg == encoder_to_degrees(dec_step, zero_dec_encoder)
        adjust == IF hemisphere = "NORTH"
                  THEN IF dec_raw_deg > 90 * Degree /\ dec_raw_deg <= 270 * Degree
                       THEN 0 - Hours(12) ELSE 0
                  ELSE IF dec_raw_deg <= 90 * Degree \/ dec_raw_deg > 270 * Degree
                       THEN Hours(12) ELSE 0
        ra_hours == (lst_hours - ha_hours) + adjust
    IN  [ra |-> ra_hours % Turn, dec |-> range_dec(dec_raw_deg)]

----------------------------------------------------------------------------
(* SynScanProtocol.get_axis_degree, get_position, get_ra_dec *)

\* a (RA, DEC) tuple
Pair(ra, dec) == [tag |-> "Pair", ra |-> ra, dec |-> dec]

GetAxisDegreeFrame(axis) ==
    NewFrame("get_axis_degree", "send", [axis |-> axis], [none |-> TRUE])
GetPositionFrame(axis) ==
    NewFrame("get_position", "send", [axis |-> axis], [none |-> TRUE])
\* direct, steps: what the two direct reads and the two step reads gave, kept
\* for the properties
GetRaDecFrame ==
    NewFrame("get_ra_dec", "ra", [none |-> TRUE],
             [first |-> Nil, direct |-> Nil, steps |-> Nil])

\* lines 451, 386: resp = self.send_command(axis, 'j')
AxisSend(t) ==
    /\ ~Idle(t)
    /\ Top(t).fn \in {"get_axis_degree", "get_position"}
    /\ Top(t).pc = "send"
    /\ CallFrom(t, "conv", SendCommandFrame(Top(t).arg.axis, "j", <<>>))
    /\ UNCHANGED <<portVars, objVars, envVars, ret, sent>>

\* lines 452-466
GetAxisDegreeConv(t) ==
    /\ At(t, "get_axis_degree", "conv")
    /\ stack' = WithTop(t, Finish(Top(t), AxisDegree(Top(t).arg.axis, ret[t])))
    /\ ret' = [ret EXCEPT ![t] = Nil]
    /\ UNCHANGED <<portVars, objVars, envVars, sent>>

\* lines 387-413
GetPositionConv(t) ==
    /\ At(t, "get_position", "conv")
    /\ stack' = WithTop(t, Finish(Top(t), PositionSteps(Top(t).arg.axis, ret[t])))
    /\ ret' = [ret EXCEPT ![t] = Nil]
    /\ UNCHANGED <<portVars, objVars, envVars, sent>>

\* line 481
GetRaDecRA(t) ==
    /\ At(t, "get_ra_dec", "ra")
    /\ CallFrom(t, "dec", GetAxisDegreeFrame(AXIS_RA))
    /\ UNCHANGED <<portVars, objVars, envVars, ret, sent>>

\* line 482
GetRaDecDEC(t) ==
    /\ At(t, "get_ra_dec", "dec")
    /\ stack' = [stack EXCEPT ![t] =
                    Append([@ EXCEPT ![Len(@)].pc = "direct", ![Len(@)].loc.first = ret[t]],
                           GetAxisDegreeFrame(AXIS_DEC))]
    /\ ret' = [ret EXCEPT ![t] = Nil]
    /\ UNCHANGED <<portVars, objVars, envVars, sent>>

\* a fault: each direct reading is put into the cache as it comes
GetRaDecDirect_CacheEachAxis(t) ==
    /\ At(t, "get_ra_dec", "direct")
    /\ LET ra_deg == Top(t).loc.first
           dec_deg == ret[t]
           f == [Top(t) EXCEPT !.loc.direct = <<ra_deg, dec_deg>>]
       IN  /\ current_ra' = IF IsNone(ra_deg) THEN current_ra ELSE ra_deg
           /\ current_dec' = IF IsNone(dec_deg) THEN current_dec ELSE dec_deg
           /\ IF ~IsNone(ra_deg) /\ ~IsNone(dec_deg)
              THEN stack' = WithTop(t, Finish(f, Pair(ra_deg.n, dec_deg.n)))
              ELSE stack' = [stack EXCEPT ![t] =
                                Append(SubSeq(@, 1, Len(@) - 1),
                                       [f EXCEPT !.pc = "steps"])
                                    \o <<GetPositionFrame(AXIS_RA)>>]
    /\ ret' = [ret EXCEPT ![t] = Nil]
    /\ UNCHANGED <<portVars, envVars, sent, siteVars, STEPS_PER_REVOLUTION>>

\* lines 483-490: both axes read directly, or on to the encoder steps
GetRaDecDirect(t) ==
    /\ At(t, "get_ra_dec", "direct")
    /\ LET ra_deg == Top(t).loc.first
           dec_deg == ret[t]
           f == [Top(t) EXCEPT !.loc.direct = <<ra_deg, dec_deg>>]
       IN  IF ~IsNone(ra_deg) /\ ~IsNone(dec_deg)
           THEN /\ current_ra' = ra_deg
                /\ current_dec' = dec_deg
                /\ stack' = WithTop(t, Finish(f, Pair(ra_deg.n, dec_deg.n)))
           ELSE /\ UNCHANGED posVars
                /\ stack' = [stack EXCEPT ![t] =
                                Append(SubSeq(@, 1, Len(@) - 1),
                                       [f EXCEPT !.pc = "steps"])
                                    \o <<GetPositionFrame(AXIS_RA)>>]
    /\ ret' = [ret EXCEPT ![t] = Nil]
    /\ UNCHANGED <<portVars, envVars, sent, siteVars, STEPS_PER_REVOLUTION>>

\* line 491
GetRaDecSteps(t) ==
    /\ At(t, "get_ra_dec", "steps")
    /\ stack' = [stack EXCEPT ![t] =
                    Append([@ EXCEPT ![Len(@)].pc = "convert", ![Len(@)].loc.first = ret[t]],
                           GetPositionFrame(AXIS_DEC))]
    /\ ret' = [ret EXCEPT ![t] = Nil]
    /\ UNCHANGED <<portVars, objVars, envVars, sent>>

\* a fault: when a step read failed, the cached position is returned
GetRaDecConvert_CacheOnFailure(t) ==
    /\ At(t, "get_ra_dec", "convert")
    /\ LET ra_steps == Top(t).loc.first
           dec_steps == ret[t]
           f == [Top(t) EXCEPT !.loc.steps = <<ra_steps, dec_steps>>]
       IN  IF ~IsNone(ra_steps) /\ ~IsNone(dec_steps)
           THEN \E lst \in LSTs :
                  LET r == encoders_to_radec(ra_steps.n, dec_steps.n, lst)
                  IN  /\ current_ra' = Num(r.ra)
                      /\ current_dec' = Num(r.dec)
                      /\ stack' = WithTop(t, Finish(f, Pair(r.ra, r.dec)))
           ELSE /\ UNCHANGED posVars
                /\ stack' = WithTop(t, Finish(f, Pair(current_ra.n, current_dec.n)))
    /\ ret' = [ret EXCEPT ![t] = Nil]
    /\ UNCHANGED <<portVars, envVars, sent, siteVars, STEPS_PER_REVOLUTION>>

\* lines 492-502
GetRaDecConvert(t) ==
    /\ At(t, "get_ra_dec", "convert")
    /\ LET ra_steps == Top(t).loc.first
           dec_steps == ret[t]
           f == [Top(t) EXCEPT !.loc.steps = <<ra_steps, dec_steps>>]
       IN  IF ~IsNone(ra_steps) /\ ~IsNone(dec_steps)
           THEN \E lst \in LSTs :
                  LET r == encoders_to_radec(ra_steps.n, dec_steps.n, lst)
                  IN  /\ current_ra' = Num(r.ra)
                      /\ current_dec' = Num(r.dec)
                      /\ stack' = WithTop(t, Finish(f, Pair(r.ra, r.dec)))
           ELSE /\ UNCHANGED posVars
                /\ stack' = WithTop(t, Finish(f, NoneV))
    /\ ret' = [ret EXCEPT ![t] = Nil]
    /\ UNCHANGED <<portVars, envVars, sent, siteVars, STEPS_PER_REVOLUTION>>

----------------------------------------------------------------------------
(* Formatting of numbers *)

\* the decimal digits of n >= 0
RECURSIVE DecDigits(_)
DecDigits(n) ==
    IF n < 10 THEN <<HexDigits[n + 1]>>
    ELSE Append(DecDigits(n \div 10), HexDigits[(n % 10) + 1])

\* the hex digits (upper case) of n >= 0
RECURSIVE HexOf(_)
HexOf(n) ==
    IF n < 16 THEN <<HexDigits[n + 1]>>
    ELSE Append(HexOf(n \div 16), HexDigits[(n % 16) + 1])

\* s with zeros before it up to the width w
RECURSIVE ZeroPad(_, _)
ZeroPad(s, w) == IF Len(s) >= w THEN s ELSE ZeroPad(<<"0">> \o s, w)

\* f"{n:06X}": the sign is part of the width
Fmt06X(n) ==
    IF n >= 0 THEN ZeroPad(HexOf(n), 6) ELSE <<"-">> \o ZeroPad(HexOf(0 - n), 5)

\* f"{x:.6f}" of the number that is m millionths
FmtFixed6(m) ==
    LET a == IF m >= 0 THEN m ELSE 0 - m
    IN  (IF m < 0 THEN <<"-">> ELSE <<>>)
            \o DecDigits(a \div 1000000) \o <<".">> \o ZeroPad(DecDigits(a % 1000000), 6)

\* an angle in hours, rounded to millionths of an hour: (u / Degree) / 15.0
MicroHours(u) == (u * 25 + 24) \div 48
\* an angle in degrees, rounded to millionths of a degree
MicroDegrees(u) ==
    IF u >= 0 THEN (u * 125 + 8) \div 16 ELSE 0 - (((0 - u) * 125 + 8) \div 16)

----------------------------------------------------------------------------
(* SynScanProtocol.goto_ra_dec *)

\* the coordinates (RA, DEC) a caller asks for: inside the ranges, on their
\* borders and outside
GotoTargets ==
    {<<0 - 15 * Degree, 26 * Degree>>,
     <<15 * Degree + Degree \div 2, 90 * Degree>>,
     <<3601 * Degree, 26 * Degree>>,
     <<0 - 3601 * Degree, 0>>,
     <<0, 91 * Degree>>,
     <<0, 0 - 91 * Degree>>}

\* a fault: the declination is not tested
GotoValid_NoDecTest(ra_deg, dec_deg) ==
    0 - 3600 * Degree <= ra_deg /\ ra_deg <= 3600 * Degree

\* line 616
GotoValid(ra_deg, dec_deg) ==
    /\ 0 - 3600 * Degree <= ra_deg /\ ra_deg <= 3600 * Degree
    /\ 0 - 90 * Degree <= dec_deg /\ dec_deg <= 90 * Degree

\* line 628: b':G200\r'
ModeCmd == <<":", "G", "2", "0", "0", CR>>

\* a fault: the declination is sent first
GotoData_DecFirst(ra_deg, dec_deg) ==
    FmtFixed6(MicroDegrees(dec_deg)) \o <<",">> \o FmtFixed6(MicroHours(ra_deg % Turn))

\* lines 619-620, 635: f"{ra_hours:.6f},{dec_deg:.6f}"
GotoData(ra_deg, dec_deg) ==
    FmtFixed6(MicroHours(ra_deg % Turn)) \o <<",">> \o FmtFixed6(MicroDegrees(dec_deg))

\* obj: the port and the object as the call found them
GotoFrame(ra_deg, dec_deg) ==
    NewFrame("goto_ra_dec", "check", [ra_deg |-> ra_deg, dec_deg |-> dec_deg],
             [io |-> {}, fault |-> FALSE, entry |-> serial,
              obj |-> <<serial, inbuf, objVars>>])

\* lines 616-622
GotoCheck(t) ==
    /\ At(t, "goto_ra_dec", "check")
    /\ IF GotoValid(Top(t).arg.ra_deg, Top(t).arg.dec_deg)
       THEN Goto(t, "mode")
       ELSE stack' = WithTop(t, Finish(Top(t), Bool(FALSE)))
    /\ UNCHANGED <<portVars, objVars, envVars, ret, sent>>

\* lines 627-628, 631-632: the frame that enters GOTO mode, on an open port
GotoMode(t) ==
    /\ At(t, "goto_ra_dec", "mode")
    /\ IF LinkOpen
       THEN \/ /\ PortUp
               /\ PortWrite(t, ModeCmd)
               /\ stack' = WithTop(t, [Top(t) EXCEPT !.pc = "modeRead",
                                                     !.loc.io = @ \cup {"write"}])
            \/ /\ ~PortUp
               /\ UNCHANGED <<pending, sent, inbuf>>
               /\ stack' = WithTop(t, Failed(Top(t), "write", "SerialException"))
       ELSE /\ UNCHANGED <<pending, sent, inbuf>>
            /\ Goto(t, "send")
    /\ UNCHANGED <<objVars, envVars, serial, broken, ret>>

\* lines 629-630: after 50 ms, read(in_waiting or 2): what is in the buffer,
\* or, the buffer empty, up to two bytes that arrive in the port's time
GotoModeRead(t) ==
    /\ At(t, "goto_ra_dec", "modeRead")
    /\ \/ /\ PortUp
          /\ IF inbuf # <<>>
             THEN inbuf' = <<>> /\ pending' = pending
             ELSE /\ inbuf' = <<>>
                  /\ \E k \in 0..2 :
                        /\ k <= Len(pending)
                        /\ pending' = SubSeq(pending, k + 1, Len(pending))
          /\ stack' = WithTop(t, [Top(t) EXCEPT !.pc = "send",
                                                !.loc.io = @ \cup {"read"}])
       \/ /\ ~PortUp
          /\ UNCHANGED <<inbuf, pending>>
          /\ stack' = WithTop(t, Failed(Top(t), "read", "SerialException"))
    /\ UNCHANGED <<objVars, envVars, serial, broken, ret, sent>>

\* lines 635-636
GotoSend(t) ==
    /\ At(t, "goto_ra_dec", "send")
    /\ CallFrom(t, "result",
                SendCommandFrame(AXIS_RA, "X",
                                 GotoData(Top(t).arg.ra_deg, Top(t).arg.dec_deg)))
    /\ UNCHANGED <<portVars, objVars, envVars, ret, sent>>

\* lines 639-644
GotoResult(t) ==
    /\ At(t, "goto_ra_dec", "result")
    /\ stack' = WithTop(t, Finish(Top(t), Bool(~IsNone(ret[t]))))
    /\ ret' = [ret EXCEPT ![t] = Nil]
    /\ UNCHANGED <<portVars, objVars, envVars, sent>>

----------------------------------------------------------------------------
(* SynScanProtocol.slew_to_coordinates, set_motion_mode, stop_all,          *)
(* set_tracking_mode, initialize_mount                                      *)

Cmd(axis, command, data) == [axis |-> axis, command |-> command, data |-> data]

\* the frame of a function that sends the commands of a list one by one;
\* k: the commands sent so far
SequenceFrame(fn, arg) == NewFrame(fn, "step", arg, [k |-> 0])

\* The function sends its next command.  strict: the function returns False
\* when the command before returned None, and True after the last command;
\* otherwise it looks at no answer and returns None after the last command.
SequenceStep_GoOn(t, fn, cmds, strict) ==
    /\ At(t, fn, "step")
    /\ LET k == Top(t).loc.k
       IN  IF k = Len(cmds)
           THEN stack' = WithTop(t, Finish(Top(t), IF strict THEN Bool(~IsNone(ret[t]))
                                                   ELSE NoneV))
           ELSE stack' = [stack EXCEPT ![t] =
                            Append([@ EXCEPT ![Len(@)].loc.k = k + 1],
                                   SendCommandFrame(cmds[k + 1].axis, cmds[k + 1].command,
                                                    cmds[k + 1].data))]
    /\ ret' = [ret EXCEPT ![t] = Nil]
    /\ UNCHANGED <<portVars, objVars, envVars, sent>>

SequenceStep(t, fn, cmds, strict) ==
    /\ At(t, fn, "step")
    /\ LET k == Top(t).loc.k
       IN  IF strict /\ k > 0 /\ IsNone(ret[t])
           THEN stack' = WithTop(t, Finish(Top(t), Bool(FALSE)))
           ELSE IF k = Len(cmds)
           THEN stack' = WithTop(t, Finish(Top(t), IF strict THEN Bool(TRUE) ELSE NoneV))
           ELSE stack' = [stack EXCEPT ![t] =
                            Append([@ EXCEPT ![Len(@)].loc.k = k + 1],
                                   SendCommandFrame(cmds[k + 1].axis, cmds[k + 1].command,
                                                    cmds[k + 1].data))]
    /\ ret' = [ret EXCEPT ![t] = Nil]
    /\ UNCHANGED <<portVars, objVars, envVars, sent>>

\* the coordinates (RA, DEC) a caller slews to
SlewTargets == {<<15 * Degree + Degree \div 2, 0 - 10 * Degree>>}

\* lines 676-677, 683-684, 700-701: the six commands of a slew
SlewCmds(ra_deg, dec_deg) ==
    LET target_ra_steps == IntDiv(ra_deg, UnitsPerStep)
        target_dec_steps == IntDiv(dec_deg, UnitsPerStep)
        speed_hex == Fmt06X(STEPS_PER_REVOLUTION \div 360)
    IN  <<Cmd(AXIS_RA, "S", Fmt06X(target_ra_steps)),
          Cmd(AXIS_DEC, "S", Fmt06X(target_dec_steps)),
          Cmd(AXIS_RA, "I", speed_hex),
          Cmd(AXIS_DEC, "I", speed_hex),
          Cmd(AXIS_RA, "J", <<>>),
          Cmd(AXIS_DEC, "J", <<>>)>>

\* a fault: the slew starts the axes whatever became of the commands before
SlewStep_StartAnyway(t) ==
    SequenceStep_GoOn(t, "slew_to_coordinates",
                      SlewCmds(Top(t).arg.ra_deg, Top(t).arg.dec_deg), TRUE)

\* lines 687-730
SlewStep(t) ==
    SequenceStep(t, "slew_to_coordinates",
                 SlewCmds(Top(t).arg.ra_deg, Top(t).arg.dec_deg), TRUE)

\* the default speed "000100"
DefaultSpeed == <<"0", "0", "0", "1", "0", "0">>

\* a fault: the motion is started first
MotionCmds_StartFirst(axis, direction, speed) ==
    <<Cmd(axis, "J", <<>>), Cmd(axis, "I", DecDigits(direction)), Cmd(axis, "I", speed)>>

\* lines 542, 548, 554: direction, speed, start
MotionCmds(axis, direction, speed) ==
    <<Cmd(axis, "I", DecDigits(direction)), Cmd(axis, "I", speed), Cmd(axis, "J", <<>>)>>

\* lines 542-560
MotionStep(t) ==
    SequenceStep(t, "set_motion_mode",
                 MotionCmds(Top(t).arg.axis, Top(t).arg.direction, Top(t).arg.speed), TRUE)

\* a fault: the DEC axis is stopped only when the RA axis acknowledged
StopAllStep_GiveUp(t) ==
    SequenceStep(t, "stop_all",
                 <<Cmd(AXIS_RA, "K", <<>>), Cmd(AXIS_DEC, "K", <<>>)>>, TRUE)

\* lines 521, 525-526: K on RA, K on DEC; no answer is looked at
StopAllStep(t) ==
    SequenceStep(t, "stop_all",
                 <<Cmd(AXIS_RA, "K", <<>>), Cmd(AXIS_DEC, "K", <<>>)>>, FALSE)

\* lines 593-599
TrackingStep(t) ==
    SequenceStep(t, "set_tracking_mode",
                 <<Cmd(AXIS_RA, "T", DecDigits(Top(t).arg.mode))>>, TRUE)

InitializeMountFrame ==
    NewFrame("initialize_mount", "ra", [none |-> TRUE], [none |-> TRUE])

\* line 859: self.initialize_axis(1)
MountInitRA(t) ==
    /\ At(t, "initialize_mount", "ra")
    /\ CallFrom(t, "dec", InitializeAxisFrame(AXIS_RA))
    /\ UNCHANGED <<portVars, objVars, envVars, ret, sent>>

\* a fault: the DEC axis is initialized whatever became of the RA axis
MountInitDEC_Always(t) ==
    /\ At(t, "initialize_mount", "dec")
    /\ CallFrom(t, "end", InitializeAxisFrame(AXIS_DEC))
    /\ ret' = [ret EXCEPT ![t] = Nil]
    /\ UNCHANGED <<portVars, objVars, envVars, sent>>

\* lines 859-865
MountInitDEC(t) ==
    /\ At(t, "initialize_mount", "dec")
    /\ IF IsTrue(ret[t])
       THEN CallFrom(t, "end", InitializeAxisFrame(AXIS_DEC))
       ELSE stack' = WithTop(t, Finish(Top(t), Bool(FALSE)))
    /\ ret' = [ret EXCEPT ![t] = Nil]
    /\ UNCHANGED <<portVars, objVars, envVars, sent>>

\* lines 865-869
MountInitEnd(t) ==
    /\ At(t, "initialize_mount", "end")
    /\ stack' = WithTop(t, Finish(Top(t), Bool(IsTrue(ret[t]))))
    /\ ret' = [ret EXCEPT ![t] = Nil]
    /\ UNCHANGED <<portVars, objVars, envVars, sent>>

----------------------------------------------------------------------------
(* SkyWatcherUI: start_monitoring, stop_monitoring and the monitoring thread *)

MonitoringLoopFrame ==
    NewFrame("monitoring_loop", "test", [none |-> TRUE], [none |-> TRUE])

\* ui.py line 743: while self.running
MonTest(t) ==
    /\ At(t, "monitoring_loop", "test")
    /\ IF running
       THEN Goto(t, "poll")
       ELSE stack' = WithTop(t, Finish(Top(t), NoneV))
    /\ UNCHANGED <<portVars, objVars, envVars, ret, sent>>

\* ui.py lines 749-750: if self.synscan: position = self.synscan.get_ra_dec()
MonPoll(t) ==
    /\ At(t, "monitoring_loop", "poll")
    /\ IF held
       THEN CallFrom(t, "got", GetRaDecFrame)
       ELSE Goto(t, "sleep")
    /\ UNCHANGED <<portVars, objVars, envVars, ret, sent>>

\* ui.py lines 751-768: the position is kept, or the RA steps are read
MonGot(t) ==
    /\ At(t, "monitoring_loop", "got")
    /\ IF ret[t].tag = "Pair"
       THEN /\ ui_position' = ret[t]
            /\ Goto(t, "sleep")
       ELSE /\ ui_position' = ui_position
            /\ CallFrom(t, "diag", GetPositionFrame(AXIS_RA))
    /\ ret' = [ret EXCEPT ![t] = Nil]
    /\ UNCHANGED <<portVars, objVars, devVars, running, held, panelVars, histVars, sent>>

\* ui.py line 769
MonDiag(t) ==
    /\ At(t, "monitoring_loop", "diag")
    /\ CallFrom(t, "sleep", GetPositionFrame(AXIS_DEC))
    /\ ret' = [ret EXCEPT ![t] = Nil]
    /\ UNCHANGED <<portVars, objVars, envVars, sent>>

\* ui.py lines 773, 777: time.sleep(1)
MonSleep(t) ==
    /\ At(t, "monitoring_loop", "sleep")
    /\ Goto(t, "test")
    /\ ret' = [ret EXCEPT ![t] = Nil]
    /\ UNCHANGED <<portVars, objVars, envVars, sent>>

\* ui.py lines 783-786: start_monitoring when no monitoring runs
StartMonitoring(t) ==
    /\ ~running
    /\ Enter(t, NewFrame("start_monitoring", "site", [none |-> TRUE], [none |-> TRUE]))
    /\ running' = TRUE
    /\ UNCHANGED <<portVars, objVars, devVars, held, ui_position, panelVars, histVars>>

\* the start button pressed by a user who waits until the loop of the last
\* monitoring has ended
CallStartMonitoring(t) ==
    /\ \A m \in MonThreads : Idle(m)
    /\ StartMonitoring(t)

\* ui.py lines 789-797: the site of the GPS label, if the object has none
StartSite(t) ==
    /\ At(t, "start_monitoring", "site")
    /\ IF held /\ (latitude = NoneV \/ longitude = NoneV)
       THEN \/ \E lat \in Latitudes, lon \in Longitudes :
                  CallFrom(t, "spawn", SetLocationFrame(lat, lon))
            \/ Goto(t, "spawn")
       ELSE Goto(t, "spawn")
    /\ UNCHANGED <<portVars, objVars, envVars, ret, sent>>

\* ui.py lines 800-801: a new thread starts, whether or not a thread of an
\* earlier monitoring is still alive
StartSpawn(t) ==
    /\ At(t, "start_monitoring", "spawn")
    /\ LET m == IF Idle("mon") THEN "mon" ELSE "mon2"
       IN  /\ Idle(m)
           /\ stack' = [WithTop(t, Finish(Top(t), NoneV)) EXCEPT ![m] = <<MonitoringLoopFrame>>]
    /\ UNCHANGED <<portVars, objVars, envVars, ret, sent>>

\* ui.py lines 803-808
CallStopMonitoring(t) ==
    /\ Idle(t)
    /\ running
    /\ running' = FALSE
    /\ UNCHANGED <<portVars, objVars, callVars, devVars, held, ui_position, panelVars, histVars>>

----------------------------------------------------------------------------
(* SkyWatcherUI: the random GOTO sequence and its worker thread *)

\* ui.py line 82: the latitude of the preset the worker falls back to, 39.9
BeijingLat == 40

\* the targets random.uniform draws (ui.py lines 1525-1526): the place where
\* the axes read zero, and one far from it
RandomTargets == {<<0, 0>>, <<15 * Degree + Degree \div 2, 26 * Degree>>}

\* i: the targets begun; obs_lat: the local variable obs_lat (with obs_lon);
\* waited: the rounds waited for the target
WorkerFrame ==
    NewFrame("_random_goto_worker", "site", [count |-> MaxTargets],
             [i |-> 0, obs_lat |-> NoneV, target |-> <<0, 0>>, waited |-> 0])

\* ui.py lines 1397-1410: start_random_goto_sequence.  The button is pressed
\* when the thread of the last sequence has ended.
CallStartRandomGoto(t) ==
    /\ Idle(t)
    /\ ~random_goto_running
    /\ held
    /\ Idle(WorkerThread)
    /\ random_goto_running' = TRUE
    /\ stack' = [stack EXCEPT ![WorkerThread] = <<WorkerFrame>>]
    /\ UNCHANGED <<portVars, objVars, devVars, running, held, ui_position, obs_lat,
                   serial_status, histVars, ret, sent>>

\* ui.py lines 1633-1636: stop_random_goto_sequence
CallStopRandomGoto(t) ==
    /\ Idle(t)
    /\ random_goto_running
    /\ random_goto_running' = FALSE
    /\ UNCHANGED <<portVars, objVars, callVars, devVars, running, held, ui_position,
                   obs_lat, serial_status, histVars>>

\* ui.py lines 1481-1517: the local obs_lat is read once; when it is None the
\* attribute self.obs_lat gets the preset, the local variable keeps None
WorkerSite(t) ==
    /\ At(t, "_random_goto_worker", "site")
    /\ stack' = WithTop(t, [Top(t) EXCEPT !.pc = "next", !.loc.obs_lat = obs_lat])
    /\ obs_lat' = IF obs_lat = NoneV THEN Num(BeijingLat) ELSE obs_lat
    /\ UNCHANGED <<portVars, objVars, devVars, running, held, ui_position,
                   random_goto_running, serial_status, histVars, ret, sent>>

\* ui.py lines 1519-1521: for i in range(count), left when the flag is down
WorkerNext(t) ==
    /\ At(t, "_random_goto_worker", "next")
    /\ IF Top(t).loc.i < Top(t).arg.count /\ random_goto_running
       THEN stack' = WithTop(t, [Top(t) EXCEPT !.pc = "pick", !.loc.i = @ + 1,
                                              !.loc.waited = 0, !.loc.target = <<0, 0>>])
       ELSE Goto(t, "end")
    /\ ret' = [ret EXCEPT ![t] = Nil]
    /\ UNCHANGED <<portVars, objVars, envVars, sent>>

\* ui.py lines 1523-1541: a target above the horizon is drawn.  The height is
\* computed from the local obs_lat and obs_lon (line 1532): with None,
\* _lst_deg (line 1431) raises TypeError.  After 200 draws below the horizon
\* the target is skipped.
WorkerPick(t) ==
    /\ At(t, "_random_goto_worker", "pick")
    /\ IF Top(t).loc.obs_lat = NoneV
       THEN stack' = WithTop(t, Throw(Top(t), "TypeError"))
       ELSE \/ \E c \in RandomTargets :
                  stack' = WithTop(t, [Top(t) EXCEPT !.pc = "goto", !.loc.target = c])
            \/ Goto(t, "next")
    /\ UNCHANGED <<portVars, objVars, envVars, ret, sent>>

\* ui.py line 1581: ok = self.synscan.goto_ra_dec(ra_deg, dec_deg)
WorkerGoto(t) ==
    /\ At(t, "_random_goto_worker", "goto")
    /\ CallFrom(t, "sent", GotoFrame(Top(t).loc.target[1], Top(t).loc.target[2]))
    /\ UNCHANGED <<portVars, objVars, envVars, ret, sent>>

\* ui.py lines 1582-1592: a GOTO that failed is skipped
WorkerSent(t) ==
    /\ At(t, "_random_goto_worker", "sent")
    /\ Goto(t, IF IsTrue(ret[t]) THEN "wait" ELSE "next")
    /\ ret' = [ret EXCEPT ![t] = Nil]
    /\ UNCHANGED <<portVars, objVars, envVars, sent>>

\* ui.py lines 1593-1597: while the flag is up; the position is read when the
\* GUI has none and no monitoring runs
WorkerWait(t) ==
    /\ At(t, "_random_goto_worker", "wait")
    /\ IF ~random_goto_running THEN Goto(t, "settle")
       ELSE IF ui_position = NoneV /\ held /\ ~running
       THEN CallFrom(t, "read", GetRaDecFrame)
       ELSE Goto(t, "arrived")
    /\ UNCHANGED <<portVars, objVars, envVars, ret, sent>>

\* ui.py lines 1598-1600
WorkerRead(t) ==
    /\ At(t, "_random_goto_worker", "read")
    /\ ui_position' = IF ret[t].tag = "Pair" THEN ret[t] ELSE ui_position
    /\ Goto(t, "arrived")
    /\ ret' = [ret EXCEPT ![t] = Nil]
    /\ UNCHANGED <<portVars, objVars, devVars, running, held, panelVars, histVars, sent>>

\* ui.py lines 1602, 1607: sep <= THRESHOLD (one degree).  The positions and
\* the targets of the model are equal or more than 15 degrees apart.
Near(pos, target) == pos.ra = target[1] /\ pos.dec = target[2]

\* ui.py lines 1601-1622: arrived, or half a second more, or the wait is over
WorkerArrived(t) ==
    /\ At(t, "_random_goto_worker", "arrived")
    /\ IF ui_position # NoneV /\ Near(ui_position, Top(t).loc.target)
       THEN Goto(t, "settle")
       ELSE IF Top(t).loc.waited + 1 >= MaxWaitRounds
       THEN Goto(t, "settle")
       ELSE stack' = WithTop(t, [Top(t) EXCEPT !.pc = "wait", !.loc.waited = @ + 1])
    /\ UNCHANGED <<portVars, objVars, envVars, ret, sent>>

\* ui.py lines 1625-1628: the pause between two targets
WorkerSettle(t) ==
    /\ At(t, "_random_goto_worker", "settle")
    /\ Goto(t, "next")
    /\ UNCHANGED <<portVars, objVars, envVars, ret, sent>>

\* ui.py lines 1630-1631
WorkerEnd(t) ==
    /\ At(t, "_random_goto_worker", "end")
    /\ random_goto_running' = FALSE
    /\ stack' = WithTop(t, Finish(Top(t), NoneV))
    /\ UNCHANGED <<portVars, objVars, devVars, running, held, ui_position, obs_lat,
                   serial_status, histVars, ret, sent>>

----------------------------------------------------------------------------
(* The serial panel of the GUI: the buttons that connect and disconnect, and *)
(* the label self.serial_status that update_status() sets                    *)

\* the SynScanProtocol object the operations act on, as a value
ObjectState ==
    [serial |-> serial, broken |-> broken,
     latitude |-> latitude, longitude |-> longitude, hemisphere |-> hemisphere,
     steps |-> STEPS_PER_REVOLUTION,
     current_ra |-> current_ra, current_dec |-> current_dec]

\* synscan.py lines 41-70: the object that SynScanProtocol(port, 9600) builds
NewObject ==
    [serial |-> "None", broken |-> FALSE,
     latitude |-> NoneV, longitude |-> NoneV, hemisphere |-> "NORTH",
     steps |-> DefaultStepsPerRevolution,
     current_ra |-> Num(0), current_dec |-> Num(0)]

\* the operations act on object o from now on
Becomes(o) ==
    /\ serial' = o.serial
    /\ broken' = o.broken
    /\ latitude' = o.latitude
    /\ longitude' = o.longitude
    /\ hemisphere' = o.hemisphere
    /\ STEPS_PER_REVOLUTION' = o.steps
    /\ current_ra' = o.current_ra
    /\ current_dec' = o.current_dec

ConnectSelectedPortFrame ==
    NewFrame("connect_selected_port", "check", [none |-> TRUE], [old |-> NoneV])

\* ui.py line 651: the button, with a port selected (lines 653-656)
CallConnectSelectedPort(t) ==
    /\ Enter(t, ConnectSelectedPortFrame)
    /\ UNCHANGED <<portVars, objVars, envVars>>

\* ui.py lines 659-670: connected to the selected port already: return;
\* connected to another port: disconnect the held object first
ConnectSelectedCheck(t) ==
    /\ At(t, "connect_selected_port", "check")
    /\ IF held /\ serial = "open"
       THEN \E same \in BOOLEAN :
               IF same
               THEN stack' = WithTop(t, Finish(Top(t), NoneV))
               ELSE CallFrom(t, "new", DisconnectFrame)
       ELSE Goto(t, "new")
    /\ UNCHANGED <<portVars, objVars, envVars, ret, sent>>

\* ui.py lines 673-675: new_syn = SynScanProtocol(port, 9600); new_syn.connect().
\* self.synscan is still the old object, kept in the frame; the port of
\* new_syn is another port, with nothing in its buffers
ConnectSelectedNew(t) ==
    /\ At(t, "connect_selected_port", "new")
    /\ Becomes(NewObject)
    /\ inbuf' = <<>>
    /\ pending' = <<>>
    /\ stack' = [stack EXCEPT ![t] =
                    Append([@ EXCEPT ![Len(@)].pc = "result",
                                     ![Len(@)].loc.old = ObjectState],
                           ConnectFrame)]
    /\ UNCHANGED <<envVars, ret, sent>>

\* ui.py lines 675-688: connect() returned True: self.synscan = new_syn and
\* update_status(True, ...); it returned False: a line in the log, and
\* self.synscan is the object it was
ConnectSelectedResult(t) ==
    /\ At(t, "connect_selected_port", "result")
    /\ IF IsTrue(ret[t])
       THEN /\ held' = TRUE
            /\ serial_status' = TRUE
            /\ UNCHANGED <<portVars, objVars>>
       ELSE /\ Becomes(Top(t).loc.old)
            /\ UNCHANGED <<held, serial_status, inbuf, pending>>
    /\ stack' = WithTop(t, Finish(Top(t), NoneV))
    /\ UNCHANGED <<devVars, running, ui_position, random_goto_running, obs_lat,
                   histVars, ret, sent>>

DisconnectSerialFrame ==
    NewFrame("disconnect_serial", "check", [none |-> TRUE], [none |-> TRUE])

\* ui.py line 692: the button
CallDisconnectSerial(t) ==
    /\ Enter(t, DisconnectSerialFrame)
    /\ UNCHANGED <<portVars, objVars, envVars>>

\* ui.py lines 694-696, 701-702: the held object is disconnected if its port
\* is open; otherwise a line in the log
DisconnectSerialCheck(t) ==
    /\ At(t, "disconnect_serial", "check")
    /\ IF held /\ serial = "open"
       THEN CallFrom(t, "status", DisconnectFrame)
       ELSE stack' = WithTop(t, Finish(Top(t), NoneV))
    /\ UNCHANGED <<portVars, objVars, envVars, ret, sent>>

\* ui.py lines 697-698: update_status(False, ...)
DisconnectSerialStatus(t) ==
    /\ At(t, "disconnect_serial", "status")
    /\ serial_status' = FALSE
    /\ stack' = WithTop(t, Finish(Top(t), NoneV))
    /\ UNCHANGED <<portVars, objVars, devVars, running, held, ui_position,
                   random_goto_running, obs_lat, histVars, ret, sent>>

\* the payload of the stop buttons: speed 0
ZeroSpeed == <<"0", "0", "0", "0", "0", "0">>

StopButtonFns == {"stop_ra_axis", "stop_dec_axis"}

\* the frame of a stop button; loc keeps the responses of send_command
StopButtonFrame(fn) ==
    NewFrame(fn, "send", [none |-> TRUE], [ra |-> Nil, dec |-> Nil])

\* ui.py lines 1106-1110: the button, with self.synscan set
CallStopRaAxis(t) ==
    /\ held
    /\ Enter(t, StopButtonFrame("stop_ra_axis"))
    /\ UNCHANGED <<portVars, objVars, envVars>>

\* ui.py lines 1121-1125
CallStopDecAxis(t) ==
    /\ held
    /\ Enter(t, StopButtonFrame("stop_dec_axis"))
    /\ UNCHANGED <<portVars, objVars, envVars>>

\* ui.py lines 1135-1139
CallStopBothAxes(t) ==
    /\ held
    /\ Enter(t, StopButtonFrame("stop_both_axes"))
    /\ UNCHANGED <<portVars, objVars, envVars>>

\* ui.py lines 1114, 1129: send_command(axis, 'I', '000000')
StopAxisSend(t) ==
    /\ ~Idle(t)
    /\ Top(t).fn \in StopButtonFns
    /\ Top(t).pc = "send"
    /\ CallFrom(t, "report",
                SendCommandFrame(IF Top(t).fn = "stop_ra_axis" THEN AXIS_RA ELSE AXIS_DEC,
                                 "I", ZeroSpeed))
    /\ UNCHANGED <<portVars, objVars, envVars, ret, sent>>

\* ui.py lines 1115-1118, 1130-1133: "if response:" chooses the line of the
\* log; val is TRUE for "stopped"
StopAxisReport(t) ==
    /\ ~Idle(t)
    /\ Top(t).fn \in StopButtonFns
    /\ Top(t).pc = "report"
    /\ stack' = WithTop(t, Finish(IF Top(t).fn = "stop_ra_axis"
                                  THEN [Top(t) EXCEPT !.loc.ra = ret[t]]
                                  ELSE [Top(t) EXCEPT !.loc.dec = ret[t]],
                                  Bool(Truthy(ret[t]))))
    /\ UNCHANGED <<portVars, objVars, envVars, ret, sent>>

\* ui.py line 1144: ra_response = send_command(AXIS_RA, 'I', '000000')
StopBothRA(t) ==
    /\ At(t, "stop_both_axes", "send")
    /\ CallFrom(t, "dec", SendCommandFrame(AXIS_RA, "I", ZeroSpeed))
    /\ UNCHANGED <<portVars, objVars, envVars, ret, sent>>

\* ui.py line 1146: dec_response = send_command(AXIS_DEC, 'I', '000000')
StopBothDEC(t) ==
    /\ At(t, "stop_both_axes", "dec")
    /\ stack' = [stack EXCEPT ![t] =
                    Append([@ EXCEPT ![Len(@)].pc = "report",
                                     ![Len(@)].loc.ra = ret[t]],
                           SendCommandFrame(AXIS_DEC, "I", ZeroSpeed))]
    /\ UNCHANGED <<portVars, objVars, envVars, ret, sent>>

\* ui.py lines 1148-1154: the four lines of the log; val tells which axes the
\* line reports as stopped
StopBothReport(t) ==
    /\ At(t, "stop_both_axes", "report")
    /\ LET ra_response == Top(t).loc.ra
           dec_response == ret[t]
       IN  stack' = WithTop(t, Finish([Top(t) EXCEPT !.loc.dec = dec_response],
                                      [tag |-> "Stopped",
                                       ra |-> Truthy(ra_response),
                                       dec |-> Truthy(dec_response)]))
    /\ UNCHANGED <<portVars, objVars, envVars, ret, sent>>

----------------------------------------------------------------------------
(* Return and exception propagation *)

\* the operations that set the mount in motion when they return True
MotionFns == {"goto_ra_dec", "slew_to_coordinates", "set_motion_mode"}

\* The top frame leaves the stack.  Finished ("done"): its value is handed to
\* the caller.  Left by an exception ("raise"): the caller's handler takes the
\* exception, or it goes on.  The last frame of the stack ends the top-level
\* call; what it returned or raised is read off the frame before it leaves.
Return(t) ==
    /\ ~Idle(t)
    /\ Top(t).pc \in {"done", "raise"}
    /\ LET n == Len(stack[t])
       IN  IF n = 1
           THEN \* the top-level call is over; its caller keeps nothing of it
                /\ stack' = [stack EXCEPT ![t] = <<>>]
                /\ ret' = [ret EXCEPT ![t] = Nil]
                /\ sent' = [sent EXCEPT ![t] = <<>>]
           ELSE IF Top(t).pc = "done"
           THEN /\ stack' = [stack EXCEPT ![t] = SubSeq(@, 1, n - 1)]
                /\ ret' = [ret EXCEPT ![t] = Top(t).val]
                /\ sent' = sent
           ELSE /\ stack' = [stack EXCEPT ![t] =
                                Append(SubSeq(@, 1, n - 2), Throw(@[n - 1], Top(t).val.e))]
                /\ ret' = ret
                /\ sent' = sent
    /\ pending' = IF Top(t).fn \in RoundTripFns THEN AfterRoundTrip ELSE pending
    /\ prev' = IF "prev" \in history /\ Top(t).fn = "send_command" /\ Top(t).pc = "done"
               THEN [class |-> OutcomeClass(Top(t)), val |-> Top(t).val]
               ELSE prev
    /\ outcomes' = IF "outcomes" \notin history THEN outcomes
                   ELSE IF Len(stack[t]) = 1 THEN [outcomes EXCEPT ![t] = <<>>]
                   ELSE IF Top(t).fn \in RoundTripFns /\ Top(t).pc = "done"
                   THEN [outcomes EXCEPT ![t] = Append(@, Succeeded(Top(t).val))]
                   ELSE outcomes
    /\ started' = IF "started" \notin history \/ Len(stack[t]) > 1 THEN started
                  ELSE IF Top(t).fn \in MotionFns THEN started \/ IsTrue(Top(t).val)
                  ELSE IF Top(t).fn = "stop_all" THEN FALSE
                  ELSE started
    /\ UNCHANGED <<objVars, devVars, uiVars, history, serial, broken, inbuf>>

----------------------------------------------------------------------------
(* The callers: main.py and the handlers of the GUI thread *)

\* main.py lines 66-69: the site is written into the new object before connect()
PresetLocation(t) ==
    /\ Idle(t)
    /\ serial = "None"
    /\ latitude = NoneV
    /\ \E lat \in Latitudes, lon \in Longitudes :
          /\ latitude' = Num(lat)
          /\ longitude' = Num(lon)
    /\ UNCHANGED <<portVars, callVars, envVars, hemisphere, STEPS_PER_REVOLUTION, posVars>>

\* main.py line 71, ui.py line 675: connect() on an object whose port is not open
CallConnect(t) ==
    /\ serial # "open"
    /\ Enter(t, ConnectFrame)
    /\ UNCHANGED <<portVars, objVars, envVars>>

\* main.py line 115, ui.py lines 666, 697
CallDisconnect(t) ==
    /\ Enter(t, DisconnectFrame)
    /\ UNCHANGED <<portVars, objVars, envVars>>

\* ui.py line 1114: the speed-zero frame of the RA axis, sent directly
CallSendCommand(t) ==
    /\ Enter(t, SendCommandFrame(AXIS_RA, "I", <<"0", "0", "0", "0", "0", "0">>))
    /\ UNCHANGED <<portVars, objVars, envVars>>

\* ui.py line 1373
CallSetTime(t) ==
    /\ Enter(t, SetTimeFrame)
    /\ UNCHANGED <<portVars, objVars, envVars>>

\* ui.py lines 794, 1326
CallSetLocation(t) ==
    /\ \E lat \in Latitudes, lon \in Longitudes : Enter(t, SetLocationFrame(lat, lon))
    /\ UNCHANGED <<portVars, objVars, envVars>>

\* ui.py lines 1077, 1089
CallInitializeAxis(t) ==
    /\ \E axis \in {AXIS_RA, AXIS_DEC} : Enter(t, InitializeAxisFrame(axis))
    /\ UNCHANGED <<portVars, objVars, envVars>>

\* ui.py line 1101
CallInitializeMount(t) ==
    /\ Enter(t, InitializeMountFrame)
    /\ UNCHANGED <<portVars, objVars, envVars>>

\* ui.py lines 868, 1597
CallGetRaDec(t) ==
    /\ Enter(t, GetRaDecFrame)
    /\ UNCHANGED <<portVars, objVars, envVars>>

\* ui.py lines 819, 967, 1581
CallGotoRaDec(t) ==
    /\ \E c \in GotoTargets : Enter(t, GotoFrame(c[1], c[2]))
    /\ UNCHANGED <<portVars, objVars, envVars>>

\* ui.py line 843
CallSlewToCoordinates(t) ==
    /\ \E c \in SlewTargets :
          Enter(t, SequenceFrame("slew_to_coordinates", [ra_deg |-> c[1], dec_deg |-> c[2]]))
    /\ UNCHANGED <<portVars, objVars, envVars>>

\* ui.py lines 1038-1047, through move_dec_positive, ..., move_ra_negative
\* (lines 562-576)
CallSetMotionMode(t) ==
    /\ \E m \in {<<AXIS_RA, 0>>, <<AXIS_DEC, 1>>} :
          Enter(t, SequenceFrame("set_motion_mode",
                                 [axis |-> m[1], direction |-> m[2], speed |-> DefaultSpeed]))
    /\ UNCHANGED <<portVars, objVars, envVars>>

\* ui.py line 1055
CallStopAll(t) ==
    /\ Enter(t, SequenceFrame("stop_all", [none |-> TRUE]))
    /\ UNCHANGED <<portVars, objVars, envVars>>

\* set_tracking_mode (line 578) with its default mode
CallSetTrackingMode(t) ==
    /\ Enter(t, SequenceFrame("set_tracking_mode", [mode |-> 1]))
    /\ UNCHANGED <<portVars, objVars, envVars>>

----------------------------------------------------------------------------
(* The specification of the controller with a single caller *)

\* SynScanProtocol.__init__ (lines 51-71) and SkyWatcherUI.__init__ (ui.py 44-48)
Init ==
    /\ serial = "None"
    /\ broken = FALSE
    /\ inbuf = <<>>
    /\ pending = <<>>
    /\ stack = [t \in Threads |-> <<>>]
    /\ ret = [t \in Threads |-> Nil]
    /\ sent = [t \in Threads |-> <<>>]
    /\ latitude = NoneV
    /\ longitude = NoneV
    /\ hemisphere = "NORTH"
    /\ STEPS_PER_REVOLUTION = DefaultStepsPerRevolution
    /\ current_ra = Num(0)
    /\ current_dec = Num(0)
    /\ lateReplies = FALSE
    /\ terse = FALSE
    /\ whole = FALSE
    /\ encoder \in Encoders
    /\ running = FALSE
    /\ held = FALSE
    /\ ui_position = NoneV
    /\ random_goto_running = FALSE
    /\ obs_lat = NoneV
    /\ serial_status = (held /\ serial = "open")
    /\ history = {"sent", "prev"}
    /\ prev = NoPrev
    /\ outcomes = [t \in Threads |-> <<>>]
    /\ started = FALSE

\* one step of the code of thread t
Step(t) ==
    \/ SendCheck(t) \/ SendDrain(t) \/ SendWrite(t) \/ SendReadFirst(t)
    \/ SendReadRest(t) \/ SendTimeout(t)
    \/ SetLocationCache(t) \/ RawDrain(t) \/ RawWrite(t) \/ RawRead(t)
    \/ RawTimeout(t)
    \/ ConnectOpen(t) \/ ConnectTime(t) \/ ConnectLocation(t) \/ ConnectInitRA(t)
    \/ ConnectInitDEC(t) \/ ConnectSteps(t) \/ ConnectReconcile(t)
    \/ DisconnectClose(t)
    \/ MountInitRA(t) \/ MountInitDEC(t) \/ MountInitEnd(t)
    \/ Return(t)

\* a call of the single caller
Call(t) ==
    \/ PresetLocation(t) \/ CallConnect(t) \/ CallDisconnect(t)
    \/ CallSendCommand(t) \/ CallSetTime(t) \/ CallSetLocation(t)
    \/ CallInitializeAxis(t) \/ CallInitializeMount(t)

Next ==
    \/ Deliver
    \/ PortBreak
    \/ Call("gui")
    \/ \E t \in Threads : Step(t)

Spec == Init /\ [][Next]_vars

----------------------------------------------------------------------------
(* The specification of the GUI with its monitoring thread: the GUI thread   *)
(* and the thread of monitoring_loop use the same SynScanProtocol object     *)

\* main.py lines 64-92: connect() returned True on the new object, which sent
\* the default site, and SkyWatcherUI was built with it
InitConc ==
    /\ serial = "open"
    /\ broken = FALSE
    /\ inbuf = <<>>
    /\ pending = <<>>
    /\ stack = [t \in Threads |-> <<>>]
    /\ ret = [t \in Threads |-> Nil]
    /\ sent = [t \in Threads |-> <<>>]
    /\ latitude = Num(DEFAULT_LAT)
    /\ longitude = Num(DEFAULT_LON)
    /\ hemisphere = HemisphereOf(DEFAULT_LAT)
    /\ STEPS_PER_REVOLUTION = DefaultStepsPerRevolution
    /\ current_ra = Num(0)
    /\ current_dec = Num(0)
    /\ lateReplies = FALSE
    /\ terse = TRUE
    /\ whole = TRUE
    /\ encoder = AtZero
    /\ running = FALSE
    /\ held = TRUE
    /\ ui_position = NoneV
    /\ random_goto_running = FALSE
    /\ obs_lat = NoneV
    /\ serial_status = (held /\ serial = "open")
    /\ history = {}
    /\ prev = NoPrev
    /\ outcomes = [t \in Threads |-> <<>>]
    /\ started = FALSE

StepConc(t) ==
    \/ SendCheck(t) \/ SendDrain(t) \/ SendWrite(t) \/ SendReadFirst(t)
    \/ SendReadRest(t) \/ SendTimeout(t)
    \/ AxisSend(t) \/ GetAxisDegreeConv(t) \/ GetPositionConv(t)
    \/ GetRaDecRA(t) \/ GetRaDecDEC(t) \/ GetRaDecDirect(t) \/ GetRaDecSteps(t)
    \/ GetRaDecConvert(t)
    \/ MonTest(t) \/ MonPoll(t) \/ MonGot(t) \/ MonDiag(t) \/ MonSleep(t)
    \/ StartSite(t) \/ StartSpawn(t)
    \/ Return(t)

\* the handlers of the GUI thread
CallConc(t) ==
    \/ CallStartMonitoring(t) \/ CallStopMonitoring(t) \/ CallSendCommand(t)

NextConc ==
    \/ CallConc("gui")
    \/ \E t \in Threads : StepConc(t)

SpecConc == InitConc /\ [][NextConc]_vars

----------------------------------------------------------------------------
(* The specification of the operations on a connected mount: one caller, a   *)
(* device whose answers arrive in one piece                                  *)

\* the latitudes connect() has sent: the default, or the one of --lat
ConnectedLatitudes == {DEFAULT_LAT, 0 - 30}

\* main.py lines 64-92: connect() returned True
InitOps ==
    /\ serial = "open"
    /\ broken = FALSE
    /\ inbuf = <<>>
    /\ pending = <<>>
    /\ stack = [t \in Threads |-> <<>>]
    /\ ret = [t \in Threads |-> Nil]
    /\ sent = [t \in Threads |-> <<>>]
    /\ \E lat \in ConnectedLatitudes :
          /\ latitude = Num(lat)
          /\ hemisphere = HemisphereOf(lat)
    /\ longitude = Num(DEFAULT_LON)
    /\ STEPS_PER_REVOLUTION = DefaultStepsPerRevolution
    /\ current_ra = Num(0)
    /\ current_dec = Num(0)
    /\ lateReplies = FALSE
    /\ terse = FALSE
    /\ whole = TRUE
    /\ encoder = AtZero
    /\ running = FALSE
    /\ held = TRUE
    /\ ui_position = NoneV
    /\ random_goto_running = FALSE
    /\ obs_lat = NoneV
    /\ serial_status = (held /\ serial = "open")
    /\ history = {"sent", "outcomes", "started"}
    /\ prev = NoPrev
    /\ outcomes = [t \in Threads |-> <<>>]
    /\ started = FALSE

StepOps(t) ==
    \/ SendCheck(t) \/ SendDrain(t) \/ SendWrite(t) \/ SendReadFirst(t)
    \/ SendReadRest(t) \/ SendTimeout(t)
    \/ RawDrain(t) \/ RawWrite(t) \/ RawRead(t) \/ RawTimeout(t)
    \/ GotoCheck(t) \/ GotoMode(t) \/ GotoModeRead(t) \/ GotoSend(t) \/ GotoResult(t)
    \/ SlewStep(t) \/ MotionStep(t) \/ StopAllStep(t) \/ TrackingStep(t)
    \/ MountInitRA(t) \/ MountInitDEC(t) \/ MountInitEnd(t)
    \/ Return(t)

\* the calls of the caller
CallOps(t) ==
    \/ CallGotoRaDec(t) \/ CallSlewToCoordinates(t)
    \/ CallSetMotionMode(t) \/ CallStopAll(t) \/ CallSetTrackingMode(t)
    \/ CallSetTime(t) \/ CallInitializeAxis(t) \/ CallInitializeMount(t)

NextOps ==
    \/ PortBreak
    \/ CallOps("gui")
    \/ \E t \in Threads : StepOps(t)

SpecOps == InitOps /\ [][NextOps]_vars

----------------------------------------------------------------------------
(* The specification of the position reads on a connected mount: one caller  *)
(* that reads the position, between other calls                              *)

StepRead(t) ==
    \/ SendCheck(t) \/ SendDrain(t) \/ SendWrite(t) \/ SendReadFirst(t)
    \/ SendReadRest(t) \/ SendTimeout(t)
    \/ RawDrain(t) \/ RawWrite(t) \/ RawRead(t) \/ RawTimeout(t)
    \/ AxisSend(t) \/ GetAxisDegreeConv(t) \/ GetPositionConv(t)
    \/ GetRaDecRA(t) \/ GetRaDecDEC(t) \/ GetRaDecDirect(t) \/ GetRaDecSteps(t)
    \/ GetRaDecConvert(t)
    \/ StopAllStep(t) \/ TrackingStep(t)
    \/ Return(t)

CallRead(t) ==
    \/ CallGetRaDec(t) \/ CallStopAll(t) \/ CallSetTrackingMode(t) \/ CallSetTime(t)

NextRead ==
    \/ CallRead("gui")
    \/ \E t \in Threads : StepRead(t)

SpecRead == InitOps /\ [][NextRead]_vars

----------------------------------------------------------------------------
(* The specification of the object that is not connected: never connected,   *)
(* or disconnected after a session; every operation is called on it          *)

InitClosed ==
    /\ serial \in {"None", "open"}
    /\ broken = FALSE
    /\ inbuf = <<>>
    /\ pending = <<>>
    /\ stack = [t \in Threads |-> <<>>]
    /\ ret = [t \in Threads |-> Nil]
    /\ sent = [t \in Threads |-> <<>>]
    /\ latitude = IF serial = "open" THEN Num(DEFAULT_LAT) ELSE NoneV
    /\ longitude = IF serial = "open" THEN Num(DEFAULT_LON) ELSE NoneV
    /\ hemisphere = "NORTH"
    /\ STEPS_PER_REVOLUTION = DefaultStepsPerRevolution
    /\ current_ra = Num(0)
    /\ current_dec = Num(0)
    /\ lateReplies = FALSE
    /\ terse = FALSE
    /\ whole = TRUE
    /\ encoder = AtZero
    /\ running = FALSE
    /\ held = TRUE
    /\ ui_position = NoneV
    /\ random_goto_running = FALSE
    /\ obs_lat = NoneV
    /\ serial_status = (held /\ serial = "open")
    /\ history = {"sent", "outcomes"}
    /\ prev = NoPrev
    /\ outcomes = [t \in Threads |-> <<>>]
    /\ started = FALSE

StepClosed(t) ==
    \/ SendCheck(t)
    \/ SetLocationCache(t) \/ RawDrain(t)
    \/ DisconnectClose(t)
    \/ AxisSend(t) \/ GetAxisDegreeConv(t) \/ GetPositionConv(t)
    \/ GetRaDecRA(t) \/ GetRaDecDEC(t) \/ GetRaDecDirect(t) \/ GetRaDecSteps(t)
    \/ GetRaDecConvert(t)
    \/ GotoCheck(t) \/ GotoMode(t) \/ GotoSend(t) \/ GotoResult(t)
    \/ SlewStep(t) \/ MotionStep(t) \/ StopAllStep(t) \/ TrackingStep(t)
    \/ MountInitRA(t) \/ MountInitDEC(t)
    \/ Return(t)

\* the session, if there was one, is ended first; the operations are called on
\* the object whose link is not open
CallClosed(t) ==
    \/ CallDisconnect(t)
    \/ /\ ~LinkOpen
       /\ \/ CallSendCommand(t) \/ CallGetRaDec(t) \/ CallGotoRaDec(t)
          \/ CallSlewToCoordinates(t) \/ CallSetMotionMode(t) \/ CallStopAll(t)
          \/ CallSetTrackingMode(t) \/ CallSetTime(t) \/ CallSetLocation(t)
          \/ CallInitializeAxis(t) \/ CallInitializeMount(t)

NextClosed ==
    \/ CallClosed("gui")
    \/ \E t \in Threads : StepClosed(t)

SpecClosed == InitClosed /\ [][NextClosed]_vars

----------------------------------------------------------------------------
(* The specification of the conversions: a caller applies the codec and the  *)
(* coordinate functions of the object to inputs of every kind                *)

\* the frame of a function that computes its result from its arguments
CalcFrame(fn, arg) == NewFrame(fn, "compute", arg, [none |-> TRUE])

\* the function returns v, or raises ValueError
Computed(t, ok, v) ==
    /\ stack' = WithTop(t, IF ok THEN Finish(Top(t), v) ELSE Throw(Top(t), "ValueError"))
    /\ UNCHANGED <<portVars, objVars, envVars, ret, sent>>

\* two characters that the device sends for one byte
HexBytes ==
    {<<"0", "0">>, <<"2", "0">>, <<"4", "E">>, <<"F", "F">>, <<"f", "f">>, <<"a", "0">>,
     <<"7", "F">>, <<"8", "0">>, <<"0", "1">>}

\* the strings handed to the codec: three bytes, and strings that are no
\* three bytes of hexadecimal digits
HexStrings ==
    {a \o b \o c : a, b, c \in HexBytes}
        \cup {<<>>, <<"0", "0", "2", "0", "4">>, <<"0", "0", "2", "0", "4", "E", "0">>,
              <<"0", "0", "2", "0", "4", "G">>, <<"+", "1", "0", "0", "0", "0">>}

ParseHexCompute(t) ==
    /\ At(t, "parse_little_endian_hex", "compute")
    /\ LET p == parse_little_endian_hex(Top(t).arg.hex_str)
       IN  Computed(t, p.ok, Num(p.v))

CallParseHex(t) ==
    /\ \E x \in HexStrings : Enter(t, CalcFrame("parse_little_endian_hex", [hex_str |-> x]))
    /\ UNCHANGED <<portVars, objVars, envVars>>

\* what send_command may hand to get_position: decimal numbers, six
\* hexadecimal digits, and strings that are neither
PositionResponses ==
    {<<"1", "2", ".", "5">>, <<"0", "0", "A", "0", "0", "0">>, <<"0", "0", "2", "0", "E", "4">>,
     <<" ", "0", "0", "A", "0", "0", "0", " ">>, <<"0", "0", "2", "0", "4", "G">>,
     <<"0", "0", "A", "0", "0">>, <<"0", "0", "A", "0", "0", "0", "0">>, <<"x">>,
     <<"+", "1", "+", "2", "+", "3">>, <<"-", "1", "-", "2", "-", "3">>, <<>>,
     <<"1", "2", "3", "4", "5", "6">>}

\* get_position at the point where send_command has returned the response
CallDecodePosition(t) ==
    /\ Idle(t)
    /\ \E axis \in {AXIS_RA, AXIS_DEC}, x \in PositionResponses :
          /\ stack' = [stack EXCEPT ![t] =
                          <<[GetPositionFrame(axis) EXCEPT
                                !.pc = "conv", !.arg = [axis |-> axis, response |-> x]]>>]
          /\ ret' = [ret EXCEPT ![t] = Str(x)]
    /\ UNCHANGED <<portVars, objVars, envVars, sent>>

\* step counts handed to steps_to_degrees: within a revolution, negative,
\* and beyond a revolution
StepInputs ==
    {0, 1, 2, 3, 6, 31, 1280000, 2560000, 3840000, 5119998, 5119999,
     5120000, 5120007, 10240003, 0 - 1, 0 - 5120001}

\* angles handed to degrees_to_steps: within a turn, negative, beyond a turn
DegreeInputs ==
    {0, 1, 8, 90 * Degree, Turn - 1, Turn, Turn + 5, 2 * Turn + Degree \div 2,
     0 - 1, 0 - 9, 0 - (2 * Turn + Degree \div 4)}

StepsToDegreesCompute(t) ==
    /\ At(t, "steps_to_degrees", "compute")
    /\ Computed(t, TRUE, Num(steps_to_degrees(Top(t).arg.steps)))

\* arg.from: the step count steps_to_degrees made the angle of, if it did
DegreesToStepsCompute(t) ==
    /\ At(t, "degrees_to_steps", "compute")
    /\ Computed(t, TRUE, Num(degrees_to_steps(Top(t).arg.degrees, Top(t).arg.below)))

CallStepsToDegrees(t) ==
    /\ \E x \in StepInputs : Enter(t, CalcFrame("steps_to_degrees", [steps |-> x]))
    /\ UNCHANGED <<portVars, objVars, envVars>>

CallDegreesToSteps(t) ==
    /\ \/ \E d \in DegreeInputs :
             Enter(t, CalcFrame("degrees_to_steps",
                                [degrees |-> d, below |-> FALSE, from |-> NoneV]))
       \/ \E x \in StepInputs, b \in BOOLEAN :
             Enter(t, CalcFrame("degrees_to_steps",
                                [degrees |-> steps_to_degrees(x), below |-> b,
                                 from |-> Num(x)]))
    /\ UNCHANGED <<portVars, objVars, envVars>>

\* angles of the declination ring handed to range_dec: the quadrant
\* boundaries and their neighbours, negative angles, angles beyond a turn
RingAngles ==
    {0, 1, 45 * Degree, 90 * Degree, 90 * Degree + 1, 91 * Degree, 180 * Degree,
     180 * Degree + 1, 270 * Degree, 270 * Degree + 1, 271 * Degree, Turn - 1, Turn,
     Turn + 91 * Degree, 0 - 1, 0 - 89 * Degree, 0 - 90 * Degree, 0 - 91 * Degree,
     0 - (Turn + 100 * Degree)}

RangeDecCompute(t) ==
    /\ At(t, "range_dec", "compute")
    /\ Computed(t, TRUE, Num(range_dec(Top(t).arg.d)))

CallRangeDec(t) ==
    /\ \E d \in RingAngles : Enter(t, CalcFrame("range_dec", [d |-> d]))
    /\ UNCHANGED <<portVars, objVars, envVars>>

\* encoder counts and zero offsets handed to the encoder functions
EncoderSteps ==
    {0, 1, 40960, 1280000, 1280001, 2560000, 3840000, 3840001, 5119999, 5120000,
     5120001, 0 - 1, 0 - 1280000}
ZeroOffsets == {0, 40960, 5119999}

EncoderToDegreesCompute(t) ==
    /\ At(t, "encoder_to_degrees", "compute")
    /\ Computed(t, TRUE, Num(encoder_to_degrees(Top(t).arg.step, Top(t).arg.initstep)))

CallEncoderToDegrees(t) ==
    /\ \E x \in EncoderSteps, z \in ZeroOffsets :
          Enter(t, CalcFrame("encoder_to_degrees", [step |-> x, initstep |-> z]))
    /\ UNCHANGED <<portVars, objVars, envVars>>

EncodersToRadecCompute(t) ==
    /\ At(t, "encoders_to_radec", "compute")
    /\ LET r == encoders_to_radec(Top(t).arg.ra_step, Top(t).arg.dec_step, Top(t).arg.lst)
       IN  Computed(t, TRUE, Pair(r.ra, r.dec))

\* sidereal times of a call: compute_lst_hours gives a value in [0, 24)
CallLSTs == {0, Hours(6), Hours(23)}

\* lst: the sidereal time compute_lst_hours gives during the call
CallEncodersToRadec(t) ==
    /\ \E x \in {0, 40960, 1280000, 0 - 1280000}, y \in EncoderSteps, lst \in CallLSTs :
          Enter(t, CalcFrame("encoders_to_radec", [ra_step |-> x, dec_step |-> y, lst |-> lst]))
    /\ UNCHANGED <<portVars, objVars, envVars>>

StepCalc(t) ==
    \/ ParseHexCompute(t)
    \/ EncodersToRadecCompute(t)
    \/ EncoderToDegreesCompute(t)
    \/ RangeDecCompute(t)
    \/ StepsToDegreesCompute(t) \/ DegreesToStepsCompute(t)
    \/ GetPositionConv(t)
    \/ Return(t)

CallCalc(t) ==
    \/ CallParseHex(t)
    \/ CallEncodersToRadec(t)
    \/ CallEncoderToDegrees(t)
    \/ CallRangeDec(t)
    \/ CallStepsToDegrees(t) \/ CallDegreesToSteps(t)
    \/ CallDecodePosition(t)

NextCalc ==
    \/ CallCalc("gui")
    \/ \E t \in Threads : StepCalc(t)

SpecCalc == InitOps /\ [][NextCalc]_vars

----------------------------------------------------------------------------
(* Properties *)

\* thread t has a send_command call that has just produced its result
SendDone(t) == At(t, "send_command", "done")

\* the raw bytes a finished send_command took are a whole frame: start ... CR
WholeReply(rx) == rx # <<>> /\ rx[1] = "=" /\ rx[Len(rx)] = CR
Ascii(rx) == \A i \in 1..Len(rx) : rx[i] # NonAscii
\* the payload d of a whole frame
Payload(rx) == SubSeq(rx, 2, Len(rx) - 1)

\* thread t is between the drain of the buffer and the end of the reading of
\* the answer to its frame
InFlight(t) ==
    /\ ~Idle(t)
    /\ Top(t).fn \in RoundTripFns
    /\ Top(t).pc \in {"write", "first", "rest", "read"}

\* C1: at most one command is in flight on the serial link at any time: no two
\* threads are at once between draining the buffer and finishing to read their
\* answer, also while monitoring_loop polls and the GUI thread sends a command.
C1_OneCommandInFlight ==
    \A t1, t2 \in Threads : InFlight(t1) /\ InFlight(t2) => t1 = t2

\* C2: send_command on a link that is not open (never connected, or closed)
\* returns the failure value and attempts no drain, no write and no read.
C2_NotOpenNoPortAccess ==
    \A t \in Threads :
        SendDone(t) /\ Top(t).loc.entry # "open"
            => Top(t).val = NoneV /\ Top(t).loc.io = {}

C2_Witness ==
    \E t \in Threads :
        SendDone(t) /\ Top(t).loc.entry = "closed" /\ Top(t).val = NoneV

\* C3: send_command never raises to its caller: whatever the device and the
\* port do, the call ends with the data string or with the failure value.
C3_SendCommandNeverRaises ==
    \A t \in Threads : \A i \in 1..Len(stack[t]) :
        stack[t][i].fn = "send_command"
            => /\ stack[t][i].pc # "raise"
               /\ stack[t][i].pc = "done"
                     => stack[t][i].val = NoneV \/ IsStr(stack[t][i].val)

C3_Witness ==
    \E t \in Threads :
        /\ SendDone(t)
        /\ \E i \in 1..Len(Top(t).loc.rx) : Top(t).loc.rx[i] = NonAscii
        /\ Top(t).val = NoneV

SpecClasses == {"Data", "DeviceError", "Timeout", "MalformedFrame"}

C6_SuccessOnlyWithTerminator ==
    \A t \in Threads :
        SendDone(t) /\ IsStr(Top(t).val)
            => Top(t).loc.rx # <<>> /\ Top(t).loc.rx[Len(Top(t).loc.rx)] = CR

\* the frames of connect(), by opcode and axis, in the order of the code
ConnectOrder == <<<<"T", "1">>, <<"Z", "1">>, <<"F", "1">>, <<"F", "2">>, <<"a", "1">>>>

Kinds(frames) == [i \in 1..Len(frames) |-> <<OpOf(frames[i]), AxisOf(frames[i])>>]

\* s is r with some of its elements left out
RECURSIVE IsSubSeq(_, _)
IsSubSeq(s, r) ==
    IF s = <<>> THEN TRUE
    ELSE IF r = <<>> THEN FALSE
    ELSE IF Head(s) = Head(r) THEN IsSubSeq(Tail(s), Tail(r))
    ELSE IsSubSeq(s, Tail(r))

\* the top-level call of thread t is connect()
InConnect(t) == ~Idle(t) /\ stack[t][1].fn = "connect"

\* C7: during connect() the frames are written in the order T1, Z1, F on RA,
\* F on DEC, a on RA, each after the round trip of the one before has ended
\* (one round trip is open at a time, and it is the frame on top); no other
\* frame (position read, GOTO) is written.
C7_ConnectFrameOrder ==
    \A t \in Threads :
        InConnect(t)
            => /\ IsSubSeq(Kinds(sent[t]), ConnectOrder)
               /\ \A i \in 1..Len(stack[t]) :
                     stack[t][i].fn \in RoundTripFns => i = Len(stack[t])

C7_Witness ==
    \E t \in Threads :
        At(t, "connect", "done") /\ Kinds(sent[t]) = ConnectOrder

\* C8: connect() returns True exactly when the port was opened, whatever became
\* of the round trips after it; when it returns True the port is open.
C8_ConnectBestEffort ==
    \A t \in Threads :
        At(t, "connect", "done")
            => /\ Top(t).val \in {Bool(TRUE), Bool(FALSE)}
               /\ IsTrue(Top(t).val) <=> Top(t).loc.opened
               /\ IsTrue(Top(t).val) => serial = "open"

C8_Witness ==
    \E t \in Threads :
        /\ At(t, "connect", "done")
        /\ IsTrue(Top(t).val)
        /\ ~broken
        /\ ret[t] = NoneV

\* C9: steps-per-revolution is positive and equals 5,120,000 in every state,
\* whatever the device answered to the 'a' query.
C9_StepsPerRevolution ==
    STEPS_PER_REVOLUTION > 0 /\ STEPS_PER_REVOLUTION = 5120000

C9_Witness ==
    \E t \in Threads :
        /\ At(t, "connect", "done")
        /\ IsTrue(Top(t).val)
        /\ ret[t] = Str(<<"0", "0", "0", "0", "0", "0">>)

\* C10: hemisphere is never stale: whenever a latitude is configured, hemisphere
\* is NORTH exactly when latitude >= 0 and SOUTH exactly when latitude < 0.
C10_HemisphereNeverStale ==
    latitude # NoneV
        => /\ hemisphere = "NORTH" <=> latitude.n >= 0
           /\ hemisphere = "SOUTH" <=> latitude.n < 0

\* the zero offset encoders_to_radec uses for an axis (lines 345-346)
ZeroEncoder(axis) == IF axis = AXIS_RA THEN zero_ra_encoder ELSE zero_dec_encoder

\* C11: after an axis-initialize (F) on an axis is acknowledged, in connect()
\* or through initialize_axis / initialize_mount, the zero offset of that axis
\* holds the count the encoder of the axis had when it was initialized.
C11_ZeroOffsetSetAtInit ==
    \A t \in Threads :
        /\ At(t, "initialize_axis", "done") /\ IsTrue(Top(t).val)
              => ZeroEncoder(Top(t).arg.axis) = encoder[Top(t).arg.axis]
        /\ SendDone(t) /\ Top(t).arg.command = "F" /\ IsStr(Top(t).val)
              => ZeroEncoder(Top(t).arg.axis) = encoder[Top(t).arg.axis]

\* thread t has a get_ra_dec call that has just produced its result
ReadDone(t) == At(t, "get_ra_dec", "done")

\* both direct reads of the finished get_ra_dec of t gave an angle
DirectRead(t) == ~IsNone(Top(t).loc.direct[1]) /\ ~IsNone(Top(t).loc.direct[2])

\* C12: get_ra_dec returns the two direct readings when both axes gave one,
\* and then sends nothing more than the two position reads; otherwise it reads
\* the steps of both axes again and returns encoders_to_radec of them; it
\* returns None exactly when the direct path is unavailable and a step read
\* failed.
C12_PathSelection ==
    \A t \in Threads :
        ReadDone(t)
            => LET d == Top(t).loc.direct
                   st == Top(t).loc.steps
               IN  IF DirectRead(t)
                   THEN /\ Top(t).val = Pair(d[1].n, d[2].n)
                        /\ st = Nil
                        /\ Len(outcomes[t]) = 2
                        /\ Kinds(sent[t]) = <<<<"j", AXIS_RA>>, <<"j", AXIS_DEC>>>>
                   ELSE /\ Len(outcomes[t]) = 4
                        /\ st # Nil
                        /\ IsNone(Top(t).val) <=> (IsNone(st[1]) \/ IsNone(st[2]))
                        /\ ~IsNone(Top(t).val)
                              => \E lst \in LSTs :
                                    LET r == encoders_to_radec(st[1].n, st[2].n, lst)
                                    IN  Top(t).val = Pair(r.ra, r.dec)

C12_Witness ==
    \E t \in Threads :
        /\ ReadDone(t)
        /\ ~DirectRead(t)
        /\ Top(t).val.tag = "Pair"
        /\ Len(sent[t]) = 4

InRange(ra, dec) ==
    /\ 0 <= ra /\ ra < Turn
    /\ 0 - 90 * Degree <= dec /\ dec <= 90 * Degree

\* C14: in every state the cached position, and every pair get_ra_dec
\* returns, has 0 <= RA < 360 and -90 <= DEC <= 90, on the direct path and on
\* the encoder path, whatever numbers the device replies.
C14_PositionInRange ==
    /\ InRange(current_ra.n, current_dec.n)
    /\ \A t \in Threads :
          ReadDone(t) /\ Top(t).val.tag = "Pair"
              => InRange(Top(t).val.ra, Top(t).val.dec)

\* thread t has a goto_ra_dec call that has just produced its result
GotoDone(t) == At(t, "goto_ra_dec", "done")

\* the coordinates of the goto_ra_dec call of t are outside the ranges
OutOfRange(t) ==
    \/ Top(t).arg.ra_deg < 0 - 3600 * Degree
    \/ Top(t).arg.ra_deg > 3600 * Degree
    \/ Top(t).arg.dec_deg < 0 - 90 * Degree
    \/ Top(t).arg.dec_deg > 90 * Degree

\* C15: goto_ra_dec with RA outside [-3600, 3600] or DEC outside [-90, 90]
\* returns False and has not touched the channel: it wrote no frame, made no
\* round trip, did no operation on the port, and the port, its buffer and the
\* object are as the call found them.
C15_OutOfRangeRejectedUntouched ==
    \A t \in Threads :
        GotoDone(t) /\ OutOfRange(t)
            => /\ IsFalse(Top(t).val)
               /\ sent[t] = <<>>
               /\ outcomes[t] = <<>>
               /\ Top(t).loc.io = {}
               /\ Top(t).loc.obj = <<serial, inbuf, objVars>>

C15_Witness ==
    \E t \in Threads :
        /\ GotoDone(t)
        /\ Top(t).arg.dec_deg = 91 * Degree
        /\ IsFalse(Top(t).val)
        /\ serial = "open"
        /\ ~broken

\* the X frame of the goto_ra_dec call of t: RA in hours, of the RA brought
\* into [0, 360) degrees, then DEC in degrees, six decimals each
GotoCmd(t) ==
    LET hours == MicroHours(Top(t).arg.ra_deg % Turn)
    IN  <<":", "X", AXIS_RA>> \o FmtFixed6(hours) \o <<",">>
            \o FmtFixed6(MicroDegrees(Top(t).arg.dec_deg)) \o <<CR>>

\* the goto_ra_dec call of t had coordinates in range, found the link open,
\* and the port did not fail
GotoMade(t) ==
    GotoDone(t) /\ ~OutOfRange(t) /\ Top(t).loc.entry = "open" /\ ~broken

\* C16 as the specification states it: a goto_ra_dec with valid coordinates on
\* an open link writes exactly one frame, the X frame with RA in hours and DEC
\* in degrees, and returns True exactly when that frame is acknowledged.
C16_SingleGotoFrame ==
    \A t \in Threads :
        GotoMade(t)
            => /\ sent[t] = <<GotoCmd(t)>>
               /\ IsTrue(Top(t).val) <=> outcomes[t] = <<TRUE>>

\* C16 as the code has it: the call writes two frames, first :G200 (whose
\* answer it reads and drops), then the X frame with RA in hours, in [0, 24),
\* and DEC in degrees; it returns True exactly when the round trip of the X
\* frame succeeded, and False otherwise.
C16_ModeFrameThenGotoFrame ==
    \A t \in Threads :
        /\ GotoMade(t)
              => /\ sent[t] = <<ModeCmd, GotoCmd(t)>>
                 /\ MicroHours(Top(t).arg.ra_deg % Turn) \in 0..(24 * 1000000 - 1)
                 /\ Len(outcomes[t]) = 1
        /\ GotoDone(t) /\ ~OutOfRange(t)
              => /\ Top(t).val \in {Bool(TRUE), Bool(FALSE)}
                 /\ IsTrue(Top(t).val) <=> outcomes[t] = <<TRUE>>
                 /\ Len(sent[t]) <= 2

C16_Witness ==
    \E t \in Threads :
        /\ GotoMade(t)
        /\ IsTrue(Top(t).val)
        /\ Top(t).arg.ra_deg = 0 - 15 * Degree
        /\ sent[t][2] = <<":", "X", "1", "2", "3", ".", "0", "0", "0", "0", "0", "0", ",",
                          "2", "6", ".", "0", "0", "0", "0", "0", "0", CR>>

\* thread t is inside a call of fn made by a caller of the protocol object
Running(t, fn) == ~Idle(t) /\ stack[t][1].fn = fn

\* that call of fn has ended and its result is about to be handed back
Ended(t, fn) == Len(stack[t]) = 1 /\ At(t, fn, "done")

\* every round trip of the call of t up to the k-th succeeded
AllSucceeded(t, k) ==
    /\ Len(outcomes[t]) >= k
    /\ \A i \in 1..k : outcomes[t][i]

\* every frame the call of t wrote went out after the round trips of all the
\* frames before it had succeeded
EachAfterSuccess(t) == \A i \in 1..Len(sent[t]) : AllSucceeded(t, i - 1)

\* the frames of a slew, by opcode and axis: targets, speeds, starts
SlewOrder ==
    <<<<"S", AXIS_RA>>, <<"S", AXIS_DEC>>, <<"I", AXIS_RA>>, <<"I", AXIS_DEC>>,
      <<"J", AXIS_RA>>, <<"J", AXIS_DEC>>>>

\* C17 as the specification states it: slew_to_coordinates makes four round
\* trips, each frame written only after the round trip before it succeeded,
\* and returns True only if every one of the four succeeded.
C17_FourRoundTrips ==
    \A t \in Threads :
        Running(t, "slew_to_coordinates")
            => /\ Len(sent[t]) <= 4
               /\ EachAfterSuccess(t)
               /\ Ended(t, "slew_to_coordinates") /\ IsTrue(Top(t).val)
                     => Len(outcomes[t]) = 4 /\ AllSucceeded(t, 4)

\* C17 as the code has it: slew_to_coordinates makes six round trips, the
\* target of RA and of DEC (S), the speed of RA and of DEC (I), the start of RA
\* and of DEC (J), each frame written only after the round trips of all the
\* frames before it succeeded, and it returns True only if all six succeeded.
C17_SixRoundTrips ==
    \A t \in Threads :
        Running(t, "slew_to_coordinates")
            => /\ Len(sent[t]) <= 6
               /\ Kinds(sent[t]) = SubSeq(SlewOrder, 1, Len(sent[t]))
               /\ EachAfterSuccess(t)
               /\ Ended(t, "slew_to_coordinates")
                     => /\ Top(t).val \in {Bool(TRUE), Bool(FALSE)}
                        /\ IsTrue(Top(t).val)
                              => /\ Len(outcomes[t]) = 6 /\ AllSucceeded(t, 6)
                                 /\ Len(sent[t]) = 6

C17_Witness ==
    \E t \in Threads :
        /\ Ended(t, "slew_to_coordinates")
        /\ IsTrue(Top(t).val)
        /\ sent[t] = <<<<":", "S", "1", "0", "3", "5", "D", "1", "C", CR>>,
                       <<":", "S", "2", "-", "2", "2", "B", "8", "E", CR>>,
                       <<":", "I", "1", "0", "0", "3", "7", "8", "E", CR>>,
                       <<":", "I", "2", "0", "0", "3", "7", "8", "E", CR>>,
                       <<":", "J", "1", CR>>,
                       <<":", "J", "2", CR>>>>

\* the operations that make their round trips one after the other and give up
\* at the first that fails
AbortingFns == {"slew_to_coordinates", "set_motion_mode", "initialize_mount"}

\* a round trip of the call of t has failed
SomeFailed(t) == \E i \in 1..Len(outcomes[t]) : ~outcomes[t][i]

\* C18: in slew_to_coordinates, set_motion_mode and initialize_mount the first
\* round trip that fails is the last of the call: no frame is written and no
\* round trip is begun after it, and the operation returns False.
C18_FirstFailureEndsOperation ==
    \A t \in Threads : \A fn \in AbortingFns :
        Running(t, fn) /\ SomeFailed(t)
            => /\ AllSucceeded(t, Len(outcomes[t]) - 1)
               /\ Len(sent[t]) <= Len(outcomes[t])
               /\ Len(stack[t]) = 1
               /\ Top(t).pc = "done" => IsFalse(Top(t).val)

C18_Witness ==
    \E t \in Threads :
        /\ Ended(t, "initialize_mount")
        /\ outcomes[t] = <<FALSE>>
        /\ sent[t] = <<<<":", "F", "1", CR>>>>
        /\ IsFalse(Top(t).val)
        /\ ~broken

\* C19: there is no automatic retry: within one call of an operation of the
\* protocol object a frame whose round trip failed is not written again; in
\* particular get_ra_dec does not send the position read of an axis again
\* after the read of that axis has failed.
C19_FailedFrameNotSentAgain ==
    \A t \in Threads :
        \A i, j \in 1..Len(sent[t]) :
            i < j /\ i <= Len(outcomes[t]) /\ sent[t][i] = sent[t][j]
                => outcomes[t][i]

\* the frames of a set_motion_mode, by opcode and axis: direction, speed, start
MotionOrder(axis) == <<<<"I", axis>>, <<"I", axis>>, <<"J", axis>>>>

\* C20: set_motion_mode(axis, direction, speed) writes, in this order and for
\* the given axis only, an I frame with the direction, an I frame with the
\* speed and a J frame; it returns True exactly when all three were
\* acknowledged; the J frame is written only after both I frames were
\* acknowledged.
C20_DirectionSpeedStart ==
    \A t \in Threads :
        Running(t, "set_motion_mode")
            => LET a == stack[t][1].arg
                   n == Len(sent[t])
               IN  /\ n <= 3
                   /\ Kinds(sent[t]) = SubSeq(MotionOrder(a.axis), 1, n)
                   /\ n >= 1 => sent[t][1] = <<":", "I", a.axis>> \o DecDigits(a.direction) \o <<CR>>
                   /\ n >= 2 => sent[t][2] = <<":", "I", a.axis>> \o a.speed \o <<CR>>
                   /\ n = 3 => sent[t][3] = <<":", "J", a.axis, CR>> /\ AllSucceeded(t, 2)
                   /\ Ended(t, "set_motion_mode")
                         => /\ Top(t).val \in {Bool(TRUE), Bool(FALSE)}
                            /\ IsTrue(Top(t).val)
                                  <=> Len(outcomes[t]) = 3 /\ AllSucceeded(t, 3)
                            /\ serial = "open" /\ ~broken => n = Len(outcomes[t])

C20_Witness ==
    \E t \in Threads :
        /\ Ended(t, "set_motion_mode")
        /\ IsTrue(Top(t).val)
        /\ sent[t] = <<<<":", "I", "2", "1", CR>>,
                       <<":", "I", "2", "0", "0", "0", "1", "0", "0", CR>>,
                       <<":", "J", "2", CR>>>>

\* C21: stop_all writes a K frame for the RA axis and then a K frame for the
\* DEC axis, the second also when the first timed out or was rejected; it can
\* be called whenever the caller is free, also after a goto or a manual motion
\* was started.
C21_StopBothAxes ==
    \A t \in Threads :
        /\ Running(t, "stop_all")
              => /\ Kinds(sent[t]) = SubSeq(<<<<"K", AXIS_RA>>, <<"K", AXIS_DEC>>>>, 1, Len(sent[t]))
                 /\ Ended(t, "stop_all")
                       => /\ IsNone(Top(t).val)
                          /\ Len(outcomes[t]) = 2
                          /\ ~broken => sent[t] = <<<<":", "K", "1", CR>>, <<":", "K", "2", CR>>>>
        /\ t = "gui" /\ Idle(t) => ENABLED CallStopAll(t)

C21_Witness ==
    \E t \in Threads :
        /\ Ended(t, "stop_all")
        /\ started
        /\ outcomes[t] = <<FALSE, TRUE>>
        /\ sent[t] = <<<<":", "K", "1", CR>>, <<":", "K", "2", CR>>>>

\* what each operation returns when it fails (stop_all returns nothing)
FailureValue(fn) ==
    IF fn \in {"send_command", "get_ra_dec", "stop_all"} THEN NoneV ELSE Bool(FALSE)

\* the operations of the protocol object, disconnect apart
Operations ==
    {"send_command", "get_ra_dec", "goto_ra_dec", "slew_to_coordinates", "set_motion_mode",
     "stop_all", "set_tracking_mode", "set_time", "set_location", "initialize_axis",
     "initialize_mount"}

\* C22: on an object that was never connected or was disconnected, every
\* operation returns its failure value, raises nothing and writes no byte to
\* the port; a disconnect() of such an object changes nothing.
C22_NotConnectedFailsQuietly ==
    \A t \in Threads :
        /\ \A fn \in Operations :
              Running(t, fn) /\ ~LinkOpen
                  => /\ sent[t] = <<>>
                     /\ inbuf = <<>> /\ pending = <<>>
                     /\ \A i \in 1..Len(stack[t]) : stack[t][i].pc # "raise"
                     /\ \A i \in 1..Len(outcomes[t]) : ~outcomes[t][i]
                     /\ Ended(t, fn) => Top(t).val = FailureValue(fn)
        /\ Ended(t, "disconnect") /\ Top(t).loc.entry # "open"
              => serial = Top(t).loc.entry /\ IsNone(Top(t).val)

C22_Witness ==
    \E t \in Threads :
        /\ Ended(t, "set_time")
        /\ serial = "closed"
        /\ IsFalse(Top(t).val)
        /\ sent[t] = <<>>

\* x is a string of exactly six hexadecimal digits
SixHexDigits(x) == Len(x) = 6 /\ \A i \in 1..6 : IsHexDigit(x[i])

\* the byte written as the two hexadecimal digits of x from position i on
ByteAt(x, i) == 16 * HexDigitValue(x[i]) + HexDigitValue(x[i + 1])

\* C23: parse_little_endian_hex of a string of exactly six hexadecimal digits
\* is (high << 16) | (mid << 8) | low, with low the first two digits, mid the
\* next two and high the last two; the result is in [0, 2^24).
C23_LittleEndianByByte ==
    \A t \in Threads :
        Running(t, "parse_little_endian_hex") /\ SixHexDigits(Top(t).arg.hex_str)
            => LET x == Top(t).arg.hex_str
               IN  /\ Top(t).pc # "raise"
                   /\ Top(t).pc = "done"
                         => /\ Top(t).val
                                  = Num(ByteAt(x, 5) * 65536 + ByteAt(x, 3) * 256 + ByteAt(x, 1))
                            /\ Top(t).val.n \in 0..(16777216 - 1)

C23_Witness ==
    \E t \in Threads :
        /\ Ended(t, "parse_little_endian_hex")
        /\ Top(t).arg.hex_str = <<"0", "0", "2", "0", "4", "E">>
        /\ Top(t).val = Num(5120000)

\* the decoding of a position by get_position has ended
Decoded(t) == Ended(t, "get_position") /\ "response" \in DOMAIN Top(t).arg

\* C24: get_position reads the reply as a decimal number first and as legacy
\* hex only when that fails; a reply that is neither a decimal number nor
\* exactly six hexadecimal digits makes it return None, and it never raises.
C24_DecimalFirstThenHex ==
    \A t \in Threads :
        /\ Running(t, "get_position") => Top(t).pc # "raise"
        /\ Decoded(t)
              => LET x == Strip(Top(t).arg.response)
                     axis == Top(t).arg.axis
                 IN  IF PyFloat(x).ok
                     THEN Top(t).val
                            = Num(IF axis = AXIS_RA
                                  THEN IntDiv(range360(PyFloat(x)), UnitsPerStep)
                                           % STEPS_PER_REVOLUTION
                                  ELSE IntDiv(ClampDec(PyFloat(x)), UnitsPerStep))
                     ELSE IF SixHexDigits(x)
                     THEN Top(t).val
                            = Num(ByteAt(x, 5) * 65536 + ByteAt(x, 3) * 256 + ByteAt(x, 1))
                     ELSE IsNone(Top(t).val)

C26_RangeDec ==
    \A t \in Threads :
        Ended(t, "range_dec")
            => LET a == Top(t).arg.d
                   d == a % Turn
                   r == Top(t).val.n
               IN  /\ r >= 0 - 90 * Degree /\ r <= 90 * Degree
                   /\ d <= 90 * Degree => r = d
                   /\ d > 90 * Degree /\ d <= 270 * Degree => r = 180 * Degree - d
                   /\ d > 270 * Degree => r = d - Turn
                   /\ a = 0 => r = 0
                   /\ a = 90 * Degree => r = 90 * Degree
                   /\ a = 91 * Degree => r = 89 * Degree
                   /\ a = 270 * Degree => r = 0 - 90 * Degree
                   /\ a = 271 * Degree => r = 0 - 89 * Degree

C26_Witness ==
    \E t \in Threads :
        /\ Ended(t, "range_dec")
        /\ Top(t).arg.d = 271 * Degree
        /\ Top(t).val = Num(0 - 89 * Degree)

\* C27: for every step and zero offset, encoder_to_degrees of an object in the
\* southern hemisphere is (360 - its value in the northern hemisphere) mod
\* 360, and both values are in [0, 360), also when step = zero.
C27_HemisphereMirror ==
    \A t \in Threads :
        Ended(t, "encoder_to_degrees")
            => LET a == Top(t).arg
                   north == EncoderToDegrees("NORTH", a.step, a.initstep)
                   south == EncoderToDegrees("SOUTH", a.step, a.initstep)
               IN  /\ Top(t).val = Num(IF hemisphere = "NORTH" THEN north ELSE south)
                   /\ south = (Turn - north) % Turn
                   /\ north \in 0..(Turn - 1)
                   /\ south \in 0..(Turn - 1)

C27_Witness ==
    \E t \in Threads :
        /\ Ended(t, "encoder_to_degrees")
        /\ hemisphere = "SOUTH"
        /\ Top(t).arg.step = Top(t).arg.initstep
        /\ Top(t).val = Num(0)

\* the meridian-flip term for the raw declination angle dec_raw
FlipTerm(dec_raw) ==
    CASE hemisphere = "NORTH" /\ dec_raw > 90 * Degree /\ dec_raw <= 270 * Degree
            -> 0 - Hours(12)
      [] hemisphere = "SOUTH" /\ (dec_raw <= 90 * Degree \/ dec_raw > 270 * Degree)
            -> Hours(12)
      [] OTHER -> 0

\* C28: with the sidereal time LST of the call, encoders_to_radec returns
\* RA = 15 * ((LST - HA + adj) mod 24) and DEC = range_dec(dec_raw), where
\* HA = encoder_to_hours(ra_step, zero_ra), dec_raw =
\* encoder_to_degrees(dec_step, zero_dec), and adj is -12 h exactly when the
\* hemisphere is north and 90 < dec_raw <= 270, +12 h exactly when it is south
\* and dec_raw <= 90 or dec_raw > 270, and 0 otherwise.
C28_EncodersToRadec ==
    \A t \in Threads :
        Ended(t, "encoders_to_radec")
            => LET a == Top(t).arg
                   ha == encoder_to_hours(a.ra_step, zero_ra_encoder)
                   dec_raw == encoder_to_degrees(a.dec_step, zero_dec_encoder)
               IN  /\ Top(t).val.ra = (a.lst - ha + FlipTerm(dec_raw)) % Turn
                   /\ Top(t).val.dec = range_dec(dec_raw)

C28_Witness ==
    \E t \in Threads :
        /\ Ended(t, "encoders_to_radec")
        /\ hemisphere = "NORTH"
        /\ encoder_to_degrees(Top(t).arg.dec_step, zero_dec_encoder) = 90 * Degree
        /\ Top(t).arg.ra_step = 0
        /\ Top(t).arg.lst = 0
        /\ Top(t).val.ra = Hours(18)
        /\ Top(t).val.dec = 90 * Degree

\* what a frame carries between its axis and its end
DataOf(frame) == SubSeq(frame, 4, Len(frame) - 1)

\* C29: the payload of every S frame slew_to_coordinates writes is a step
\* count of exactly six hexadecimal digits, for every target with RA in
\* [0, 360) and DEC in [-90, 90], negative declinations included: no sign and
\* no seventh digit.
C29_TargetIsSixHexDigits ==
    \A t \in Threads :
        Running(t, "slew_to_coordinates")
            /\ stack[t][1].arg.ra_deg \in 0..(Turn - 1)
            /\ stack[t][1].arg.dec_deg \in (0 - 90 * Degree)..(90 * Degree)
            => \A i \in 1..Len(sent[t]) :
                  OpOf(sent[t][i]) = "S" => SixHexDigits(DataOf(sent[t][i]))

\* C30: every send_command on an open link empties the input buffer before
\* it writes its frame, writes exactly one frame, and that frame is ':', the
\* opcode, the axis, the data and CR; it reads no byte of the answer before
\* the write.
C30_DrainThenOneFrame ==
    \A t \in Threads :
        /\ ~Idle(t) /\ Top(t).fn = "send_command"
              => /\ Top(t).pc \in {"check", "drain", "write"}
                       => Top(t).loc.rx = <<>> /\ Top(t).loc.io \subseteq {"drain"}
                 /\ "write" \in Top(t).loc.io => "drain" \in Top(t).loc.io
                 /\ "read" \in Top(t).loc.io => "write" \in Top(t).loc.io
        /\ Running(t, "send_command")
              => /\ Top(t).pc \in {"check", "drain", "write"} => sent[t] = <<>>
                 /\ Len(sent[t]) <= 1
                 /\ sent[t] # <<>>
                       => sent[t][1] = <<":", Top(t).arg.command, Top(t).arg.axis>>
                                          \o Top(t).arg.data \o <<CR>>
                 /\ Top(t).pc = "done" /\ Top(t).loc.entry = "open" /\ ~Top(t).loc.fault
                       => Len(sent[t]) = 1

C30_Witness ==
    \E t \in Threads :
        /\ Ended(t, "send_command")
        /\ IsStr(Top(t).val)
        /\ Top(t).loc.io = {"drain", "write", "read"}
        /\ sent[t] = <<<<":", "I", "1", "0", "0", "0", "0", "0", "0", CR>>>>

----------------------------------------------------------------------------
(* The specification of the channel with a device that may go on sending:    *)
(* one caller of send_command on a connected mount                           *)

\* main.py lines 64-92: connect() returned True
InitLive ==
    /\ serial = "open"
    /\ broken = FALSE
    /\ inbuf = <<>>
    /\ pending = <<>>
    /\ stack = [t \in Threads |-> <<>>]
    /\ ret = [t \in Threads |-> Nil]
    /\ sent = [t \in Threads |-> <<>>]
    /\ latitude = Num(DEFAULT_LAT)
    /\ longitude = Num(DEFAULT_LON)
    /\ hemisphere = HemisphereOf(DEFAULT_LAT)
    /\ STEPS_PER_REVOLUTION = DefaultStepsPerRevolution
    /\ current_ra = Num(0)
    /\ current_dec = Num(0)
    /\ lateReplies = FALSE
    /\ terse = FALSE
    /\ whole = TRUE
    /\ encoder = AtZero
    /\ running = FALSE
    /\ held = TRUE
    /\ ui_position = NoneV
    /\ random_goto_running = FALSE
    /\ obs_lat = NoneV
    /\ serial_status = (held /\ serial = "open")
    /\ history = {"sent"}
    /\ prev = NoPrev
    /\ outcomes = [t \in Threads |-> <<>>]
    /\ started = FALSE

\* the byte a device that goes on sending emits after the bytes it has emitted
\* since the frame was written: 'x' for ever (no start character ever comes),
\* or '=' and then '5' for ever (no CR ever comes)
StreamNext(emitted) ==
    IF emitted = <<>> THEN {"x", "="}
    ELSE IF \A i \in 1..Len(emitted) : emitted[i] = "x" THEN {"x"}
    ELSE IF emitted[1] = "=" /\ \A i \in 2..Len(emitted) : emitted[i] = "5" THEN {"5"}
    ELSE {}

\* The device emits one more byte while the host reads (lines 197-213): the
\* buffer of the port holds MaxPending bytes at most, and is filled again as
\* the host takes bytes out of it.
DeviceStream ==
    /\ PortUp
    /\ Len(inbuf) < MaxPending
    /\ \E t \in Threads :
          /\ ~Idle(t)
          /\ Top(t).fn = "send_command"
          /\ Top(t).pc \in {"first", "rest"}
          /\ \E b \in StreamNext(Top(t).loc.rx \o inbuf) : inbuf' = Append(inbuf, b)
    /\ UNCHANGED <<objVars, callVars, envVars, serial, broken, pending>>

StepLive(t) ==
    \/ SendCheck(t) \/ SendDrain(t) \/ SendWrite(t) \/ SendReadFirst(t)
    \/ SendReadRest(t) \/ SendTimeout(t)
    \/ Return(t)

NextLive ==
    \/ DeviceStream
    \/ PortBreak
    \/ CallSendCommand("gui")
    \/ CallDisconnect("gui") \/ DisconnectClose("gui")
    \/ \E t \in Threads : StepLive(t)

\* the thread that called send_command goes on running its code: whenever it
\* has a step to take, it takes one
SpecLive == InitLive /\ [][NextLive]_vars /\ WF_vars(StepLive("gui"))

----------------------------------------------------------------------------
(* The specification of the channel with a device whose answer may come      *)
(* after the host has given up: one caller on a connected mount              *)

\* main.py lines 64-92: connect() returned True
InitLate ==
    /\ serial = "open"
    /\ broken = FALSE
    /\ inbuf = <<>>
    /\ pending = <<>>
    /\ stack = [t \in Threads |-> <<>>]
    /\ ret = [t \in Threads |-> Nil]
    /\ sent = [t \in Threads |-> <<>>]
    /\ latitude = Num(DEFAULT_LAT)
    /\ longitude = Num(DEFAULT_LON)
    /\ hemisphere = HemisphereOf(DEFAULT_LAT)
    /\ STEPS_PER_REVOLUTION = DefaultStepsPerRevolution
    /\ current_ra = Num(0)
    /\ current_dec = Num(0)
    /\ lateReplies = TRUE
    /\ terse = FALSE
    /\ whole = FALSE
    /\ encoder = AtZero
    /\ running = FALSE
    /\ held = TRUE
    /\ ui_position = NoneV
    /\ random_goto_running = FALSE
    /\ obs_lat = NoneV
    /\ serial_status = (held /\ serial = "open")
    /\ history = {"sent", "stale"}
    /\ prev = NoPrev
    /\ outcomes = [t \in Threads |-> <<>>]
    /\ started = FALSE

StepLate(t) ==
    \/ SendCheck(t) \/ SendDrain(t) \/ SendWrite(t) \/ SendReadFirst(t)
    \/ SendReadRest(t) \/ SendTimeout(t)
    \/ StopAllStep(t)
    \/ Return(t)

\* the stop buttons of the GUI: the speed-zero frame, and stop_all
NextLate ==
    \/ Deliver
    \/ CallSendCommand("gui")
    \/ CallStopAll("gui")
    \/ \E t \in Threads : StepLate(t)

SpecLate == InitLate /\ [][NextLate]_vars

----------------------------------------------------------------------------
(* The specification of the monitoring buttons: the user starts and stops    *)
(* the monitoring at any time                                                *)

\* main.py lines 64-92 and ui.py lines 693-698: the GUI holds the object that
\* was connected, and the user has closed its link with disconnect_serial
InitMon ==
    /\ serial = "closed"
    /\ broken = FALSE
    /\ inbuf = <<>>
    /\ pending = <<>>
    /\ stack = [t \in Threads |-> <<>>]
    /\ ret = [t \in Threads |-> Nil]
    /\ sent = [t \in Threads |-> <<>>]
    /\ latitude = Num(DEFAULT_LAT)
    /\ longitude = Num(DEFAULT_LON)
    /\ hemisphere = HemisphereOf(DEFAULT_LAT)
    /\ STEPS_PER_REVOLUTION = DefaultStepsPerRevolution
    /\ current_ra = Num(0)
    /\ current_dec = Num(0)
    /\ lateReplies = FALSE
    /\ terse = TRUE
    /\ whole = TRUE
    /\ encoder = AtZero
    /\ running = FALSE
    /\ held = TRUE
    /\ ui_position = NoneV
    /\ random_goto_running = FALSE
    /\ obs_lat = NoneV
    /\ serial_status = (held /\ serial = "open")
    /\ history = {}
    /\ prev = NoPrev
    /\ outcomes = [t \in Threads |-> <<>>]
    /\ started = FALSE

StepMon(t) ==
    \/ SendCheck(t)
    \/ AxisSend(t) \/ GetAxisDegreeConv(t) \/ GetPositionConv(t)
    \/ GetRaDecRA(t) \/ GetRaDecDEC(t) \/ GetRaDecDirect(t) \/ GetRaDecSteps(t)
    \/ GetRaDecConvert(t)
    \/ MonTest(t) \/ MonPoll(t) \/ MonGot(t) \/ MonDiag(t) \/ MonSleep(t)
    \/ StartSite(t) \/ StartSpawn(t)
    \/ Return(t)

NextMon ==
    \/ StartMonitoring("gui")
    \/ CallStopMonitoring("gui")
    \/ \E t \in Threads : StepMon(t)

SpecMon == InitMon /\ [][NextMon]_vars

----------------------------------------------------------------------------
(* The specification of the random GOTO sequence: the GUI thread starts and  *)
(* stops it, the worker thread runs it on the connected mount                *)

\* main.py lines 64-92; the user has applied a location (ui.py line 1318) or
\* has not
InitGoto ==
    /\ serial = "open"
    /\ broken = FALSE
    /\ inbuf = <<>>
    /\ pending = <<>>
    /\ stack = [t \in Threads |-> <<>>]
    /\ ret = [t \in Threads |-> Nil]
    /\ sent = [t \in Threads |-> <<>>]
    /\ latitude = Num(DEFAULT_LAT)
    /\ longitude = Num(DEFAULT_LON)
    /\ hemisphere = HemisphereOf(DEFAULT_LAT)
    /\ STEPS_PER_REVOLUTION = DefaultStepsPerRevolution
    /\ current_ra = Num(0)
    /\ current_dec = Num(0)
    /\ lateReplies = FALSE
    /\ terse = TRUE
    /\ whole = TRUE
    /\ encoder = AtZero
    /\ running = FALSE
    /\ held = TRUE
    /\ ui_position = NoneV
    /\ random_goto_running = FALSE
    /\ obs_lat \in {NoneV, Num(BeijingLat)}
    /\ serial_status = TRUE
    /\ history = {}
    /\ prev = NoPrev
    /\ outcomes = [t \in Threads |-> <<>>]
    /\ started = FALSE

StepGoto(t) ==
    \/ SendCheck(t) \/ SendDrain(t) \/ SendWrite(t) \/ SendReadFirst(t)
    \/ SendReadRest(t) \/ SendTimeout(t)
    \/ AxisSend(t) \/ GetAxisDegreeConv(t) \/ GetPositionConv(t)
    \/ GetRaDecRA(t) \/ GetRaDecDEC(t) \/ GetRaDecDirect(t) \/ GetRaDecSteps(t)
    \/ GetRaDecConvert(t)
    \/ GotoCheck(t) \/ GotoMode(t) \/ GotoModeRead(t) \/ GotoSend(t) \/ GotoResult(t)
    \/ WorkerSite(t) \/ WorkerNext(t) \/ WorkerPick(t) \/ WorkerGoto(t)
    \/ WorkerSent(t) \/ WorkerWait(t) \/ WorkerRead(t) \/ WorkerArrived(t)
    \/ WorkerSettle(t) \/ WorkerEnd(t)
    \/ Return(t)

NextGoto ==
    \/ CallStartRandomGoto("gui")
    \/ CallStopRandomGoto("gui")
    \/ \E t \in Threads : StepGoto(t)

\* the worker thread goes on running its code: whenever it has a step to
\* take, it takes one; the user presses the buttons or leaves them
SpecGoto == InitGoto /\ [][NextGoto]_vars /\ WF_vars(StepGoto(WorkerThread))

----------------------------------------------------------------------------
(* The specification of the serial panel and the stop buttons: the GUI       *)
(* starts without a controller (--no-serial, or connect() failed) or with    *)
(* the connected one, and the user presses the buttons                       *)

\* main.py lines 64-92, 104: synscan is None or the connected object, and
\* update_status(serial_connected, ...) before the window runs
InitPanel ==
    /\ serial \in {"None", "open"}
    /\ broken = FALSE
    /\ inbuf = <<>>
    /\ pending = <<>>
    /\ stack = [t \in Threads |-> <<>>]
    /\ ret = [t \in Threads |-> Nil]
    /\ sent = [t \in Threads |-> <<>>]
    /\ latitude = (IF serial = "open" THEN Num(DEFAULT_LAT) ELSE NoneV)
    /\ longitude = (IF serial = "open" THEN Num(DEFAULT_LON) ELSE NoneV)
    /\ hemisphere = "NORTH"
    /\ STEPS_PER_REVOLUTION = DefaultStepsPerRevolution
    /\ current_ra = Num(0)
    /\ current_dec = Num(0)
    /\ lateReplies = FALSE
    /\ terse = TRUE
    /\ whole = TRUE
    /\ encoder = AtZero
    /\ running = FALSE
    /\ held = (serial = "open")
    /\ ui_position = NoneV
    /\ random_goto_running = FALSE
    /\ obs_lat = NoneV
    /\ serial_status = (held /\ serial = "open")
    /\ history = {}
    /\ prev = NoPrev
    /\ outcomes = [t \in Threads |-> <<>>]
    /\ started = FALSE

StepPanel(t) ==
    \/ SendCheck(t) \/ SendDrain(t) \/ SendWrite(t) \/ SendReadFirst(t)
    \/ SendReadRest(t) \/ SendTimeout(t)
    \/ SetLocationCache(t) \/ RawDrain(t) \/ RawWrite(t) \/ RawRead(t)
    \/ RawTimeout(t)
    \/ ConnectOpen(t) \/ ConnectTime(t) \/ ConnectLocation(t) \/ ConnectInitRA(t)
    \/ ConnectInitDEC(t) \/ ConnectSteps(t) \/ ConnectReconcile(t)
    \/ DisconnectClose(t)
    \/ ConnectSelectedCheck(t) \/ ConnectSelectedNew(t) \/ ConnectSelectedResult(t)
    \/ DisconnectSerialCheck(t) \/ DisconnectSerialStatus(t)
    \/ StopAxisSend(t) \/ StopAxisReport(t)
    \/ StopBothRA(t) \/ StopBothDEC(t) \/ StopBothReport(t)
    \/ Return(t)

NextPanel ==
    \/ CallConnectSelectedPort("gui")
    \/ CallDisconnectSerial("gui")
    \/ CallStopRaAxis("gui")
    \/ CallStopDecAxis("gui")
    \/ CallStopBothAxes("gui")
    \/ \E t \in Threads : StepPanel(t)

SpecPanel == InitPanel /\ [][NextPanel]_vars

----------------------------------------------------------------------------
(* The byte that is no start character *)

\* the call of send_command on top of the stack of t has read a byte that is
\* neither '=' nor '!' before any start character
UnexpectedFirst(t) ==
    /\ ~Idle(t)
    /\ Top(t).fn = "send_command"
    /\ Top(t).loc.rx # <<>>
    /\ Top(t).loc.rx[1] \notin {"=", "!"}

\* C31: a send_command that received a byte other than '=' or '!' after its
\* write and before a start character returns None (failure), also when a
\* whole frame '=' data CR came after that byte and was read in the call's
\* time.
C31_UnexpectedByteFails ==
    \A t \in Threads :
        SendDone(t) /\ UnexpectedFirst(t) => Top(t).val = NoneV

\* 'x' came first, then the whole frame "=1" CR, all read by the call, which
\* returned None
C31_Witness ==
    /\ SendDone("gui")
    /\ "write" \in Top("gui").loc.io
    /\ Top("gui").loc.rx = <<"x", "=", "1", CR>>
    /\ Top("gui").loc.response = <<"x", "=", "1", CR>>
    /\ Top("gui").val = NoneV

----------------------------------------------------------------------------
(* Termination of send_command *)

\* thread t is inside a call of send_command that has not returned
InSend(t) == ~Idle(t) /\ Top(t).fn = "send_command" /\ Top(t).pc # "done"

\* C32: every call of send_command returns in the end, whatever the device
\* does: it sends nothing, it sends bytes for ever without a start character,
\* it sends a start character and then bytes for ever without a CR, or the
\* port fails.
C32_SendCommandReturns ==
    \A t \in {"gui"} : InSend(t) ~> SendDone(t)

\* the device went on sending after '=' with no CR; the call read all it could
\* in its time and returned
C32_Witness ==
    /\ SendDone("gui")
    /\ Len(Top("gui").loc.rx) = ReadLimit
    /\ Top("gui").loc.rx[1] = "="
    /\ \A i \in 1..ReadLimit : Top("gui").loc.rx[i] # CR
    /\ inbuf # <<>>

----------------------------------------------------------------------------
(* Whose answer a call returns *)

\* C33: with a single caller, the data a send_command returns is the device's
\* answer to the frame of that call: no byte of an answer to an earlier frame
\* was in the buffer or on the line when the frame was written, so that a late
\* answer to a call that timed out is never returned by a later call.
C33_OwnReplyOnly ==
    \A t \in Threads :
        SendDone(t) /\ IsStr(Top(t).val) => Top(t).loc.stale = <<>>

----------------------------------------------------------------------------
(* The legacy position reply *)

\* C34: for every position reply of exactly six hexadecimal digits,
\* get_position returns the little-endian step count
\* parse_little_endian_hex(reply), also when the six digits are all decimal
\* digits ("123456") or read as a float literal ("0020E4").
C34_SixHexDigitsReadAsHex ==
    \A t \in Threads :
        Decoded(t) /\ SixHexDigits(Top(t).arg.response)
            => Top(t).val = Num(parse_little_endian_hex(Top(t).arg.response).v)

----------------------------------------------------------------------------
(* The slew that fails *)

\* C35: whenever slew_to_coordinates returns False, no start frame (J) was
\* acknowledged on either axis during the call: none of its round trips that
\* succeeded was the one of a J frame.
C35_FailedSlewStartsNoAxis ==
    \A t \in Threads :
        Ended(t, "slew_to_coordinates") /\ IsFalse(Top(t).val)
            => \A i \in 1..Len(outcomes[t]) : outcomes[t][i] => SlewOrder[i][1] # "J"

----------------------------------------------------------------------------
(* The two directions of the legacy wire format *)

\* the number a frame of a slew carries: the target steps of the S frames
\* (lines 676-677), the speed of the I frames (line 700)
SlewNumbers(ra_deg, dec_deg) ==
    <<IntDiv(ra_deg, UnitsPerStep), IntDiv(dec_deg, UnitsPerStep),
      STEPS_PER_REVOLUTION \div 360, STEPS_PER_REVOLUTION \div 360>>

\* C36: the six-character payload slew_to_coordinates writes for a number n
\* in [0, 2^24), the target steps in an S frame and the speed in an I frame,
\* is decoded back to n by parse_little_endian_hex.
C36_PayloadDecodesToNumber ==
    \A t \in Threads :
        Running(t, "slew_to_coordinates")
            => \A i \in 1..Len(sent[t]) :
                  LET n == SlewNumbers(stack[t][1].arg.ra_deg, stack[t][1].arg.dec_deg)
                  IN  i <= 4 /\ 0 <= n[i] /\ n[i] < 16777216
                         => /\ parse_little_endian_hex(DataOf(sent[t][i])).ok
                            /\ parse_little_endian_hex(DataOf(sent[t][i])).v = n[i]

----------------------------------------------------------------------------
(* The threads of the monitoring *)

\* the thread m runs monitoring_loop and has not left its loop
Polling(m) == Running(m, "monitoring_loop") /\ stack[m][1].pc # "done"

\* C37: at most one thread runs monitoring_loop and polls the mount at any
\* time, however start_monitoring and stop_monitoring are called.
C37_OneMonitoringLoop ==
    Cardinality({m \in MonThreads : Polling(m)}) <= 1

----------------------------------------------------------------------------
(* The end of the random GOTO sequence *)

\* C38: every random GOTO sequence that was started ends with
\* random_goto_running = False, so that a new sequence is accepted: when all
\* targets are done, when the stop is asked for, when GOTO commands fail, when
\* a target is never reached, and when no location was applied before.
C38_SequenceEnds ==
    random_goto_running ~> ~random_goto_running

\* a handler of the GUI thread has just completed
Completed(t, fns) == ~Idle(t) /\ Len(stack[t]) = 1 /\ Top(t).fn \in fns /\ Top(t).pc = "done"

\* C39: after connect_selected_port or disconnect_serial completes, the serial
\* status label shows connected if and only if the port of the controller
\* object the GUI holds is open
C39_StatusShowsLink ==
    Completed("gui", {"connect_selected_port", "disconnect_serial"})
        => (serial_status <=> (held /\ serial = "open"))

\* C40: a stop button reports an axis as stopped exactly when send_command
\* returned the payload of an acknowledgement, the empty payload included
C40_StoppedIffAcknowledged ==
    /\ Completed("gui", StopButtonFns)
          => (IsTrue(Top("gui").val)
                 <=> IsStr(IF Top("gui").fn = "stop_ra_axis"
                           THEN Top("gui").loc.ra ELSE Top("gui").loc.dec))
    /\ Completed("gui", {"stop_both_axes"})
          => /\ Top("gui").val.ra <=> IsStr(Top("gui").loc.ra)
             /\ Top("gui").val.dec <=> IsStr(Top("gui").loc.dec)

====
